---------------------------- MODULE Spec2Model ----------------------------
(***************************************************************************)
(* A model of linux-media-rs: the error taxonomy of the ioctl! wrapper,    *)
(* the Request lifecycle, the packed Version, the MediaEntityIter cursor,  *)
(* the two-phase topology build of MediaTopologyBuilder and MediaTopology, *)
(* the decoders of the raw records and their names, MediaPadDesc,          *)
(* MediaLinksEnum and MediaLinkDesc::setup.                                *)
(*                                                                         *)
(* The kernel side of every control call is the environment: it is         *)
(* modelled as the source's comments and the kernel ABI describe it, and   *)
(* it chooses its outcome nondeterministically.                            *)
(*                                                                         *)
(* A Rust Result is a record with a tag: "Ok", "Err" (an error value is    *)
(* returned) or "Panic" (unwrap, assert! or unreachable! unwinds; nothing  *)
(* is returned).                                                           *)
(*                                                                         *)
(* 32-bit flag words are sets of bit positions (a subset of 0..31): bit    *)
(* and is intersection, bit or is union.  TLC's integers are 32-bit signed *)
(* and cannot hold 1 << 31 or 0xf << 28.                                   *)
(***************************************************************************)
EXTENDS Integers, Sequences, FiniteSets, TLC

VARIABLES
    reqState,     \* kernel: lifecycle state of each request descriptor
    lastCall,     \* the last control call of the Request/ioctl layer and its Result
    ver,          \* a Version value
    packed,       \* Into::<u32>::into(ver), once computed
    decoded,      \* Version::from of a u32, once computed
    entDev,       \* kernel: the ids of the device's entities (fixed device)
    iter,         \* a MediaEntityIter: fd, id, desc and its position
    yielded,      \* the ids of the entities next() has returned so far
    dev,          \* kernel: the media graph and its topology_version
    mediaVersion, \* MediaDeviceInfo::media_version handed to the builds
    runA,         \* a MediaTopologyBuilder::from_fd call in flight (topologyA)
    runB,         \* a MediaTopology::from_fd call in flight (topologyB)
    stable,       \* no graph mutation since runA started
    dec,          \* the last conversion of a raw record or flag word and its outcome
    lnkDev,       \* kernel: an entity, its pads and its outbound links
    lenum,        \* a MediaLinksEnum::new call in flight
    held,         \* a MediaLinkDesc the caller holds, and its last setup call
    lchanges      \* the number of changes of the entity so far

ctlVars  == <<reqState, lastCall>>
verVars  == <<ver, packed, decoded>>
iterVars == <<entDev, iter, yielded>>
topoVars == <<dev, mediaVersion, runA, runB, stable>>
decVars  == <<dec>>
linkVars == <<lnkDev, lenum, held, lchanges>>
vars     == <<ctlVars, verVars, iterVars, topoVars, decVars, linkVars>>

NoVal == "none"

---------------------------------------------------------------------------
(* Result values.                                                          *)

Ok(v)      == [tag |-> "Ok", val |-> v]
Err(e)     == [tag |-> "Err", err |-> e]
Panic(m)   == [tag |-> "Panic", msg |-> m]
IsOk(r)    == r.tag = "Ok"
IsErr(r)   == r.tag = "Err"
IsPanic(r) == r.tag = "Panic"

---------------------------------------------------------------------------
(* Option values.                                                          *)

None    == [some |-> FALSE]
Some(x) == [some |-> TRUE, val |-> x]

---------------------------------------------------------------------------
(* errno values used by the source (libc).                                 *)

EBUSY  == 16
ENOTTY == 25
ENOENT == 2
ENOMEM == 12
EINVAL == 22
EIO    == 5

\* errno values with no entry in any table of the source: EPERM, ENOSPC
OtherErrnos == {1, 28}

Errnos == {EBUSY, ENOTTY, ENOENT, ENOMEM, EINVAL, EIO} \cup OtherErrnos

\* the control calls that go through ioctl! unchanged
GenericApis ==
    {"MEDIA_IOC_G_TOPOLOGY", "MEDIA_IOC_ENUM_ENTITIES", "MEDIA_IOC_ENUM_LINKS",
     "MEDIA_IOC_SETUP_LINK", "MEDIA_IOC_REQUEST_ALLOC", "MEDIA_REQUEST_IOC_REINIT"}

Apis == GenericApis \cup {"MEDIA_REQUEST_IOC_QUEUE"}

\* descriptors: the media device and the requests allocated on it
MediaFd == 3
RequestFds == {4, 5}
Fds == {MediaFd} \cup RequestFds

---------------------------------------------------------------------------
(* error.rs: Error::ioctl_error                                            *)

\* variant: without the ENOTTY arm
ioctl_error_enotty_generic(fd, code, api) ==
    IF code = EBUSY THEN [kind |-> "DeviceIsBusy", fd |-> fd, code |-> code, api |-> api]
    ELSE [kind |-> "Ioctl", fd |-> fd, code |-> code, api |-> api]

\* variant: without the EBUSY arm
ioctl_error_ebusy_generic(fd, code, api) ==
    IF code = ENOTTY THEN [kind |-> "NotSupportedIoctl", fd |-> fd, code |-> code, api |-> api]
    ELSE [kind |-> "Ioctl", fd |-> fd, code |-> code, api |-> api]

\* Error::ioctl_error
ioctl_error(fd, code, api) ==
    CASE code = EBUSY  -> [kind |-> "DeviceIsBusy", fd |-> fd, code |-> code, api |-> api]
      [] code = ENOTTY -> [kind |-> "NotSupportedIoctl", fd |-> fd, code |-> code, api |-> api]
      [] OTHER         -> [kind |-> "Ioctl", fd |-> fd, code |-> code, api |-> api]

\* variant: the return value is not looked at
ioctl_ignores_ret(fd, api, ret, errno) == Ok(NoVal)

\* ioctl.rs: ioctl!  ret is the return value of libc::ioctl, errno the
\* value of last_os_error() when it is not 0.
ioctl(fd, api, ret, errno) ==
    IF ret # 0 THEN Err(ioctl_error(fd, errno, api)) ELSE Ok(NoVal)

ErrorKinds ==
    {"Ioctl", "NotSupportedIoctl", "DeviceIsBusy", "RequestIsAlreadyQueued",
     "RequestNotContainBuffers", "OutOfMemory", "RequestHasInvalidData",
     "HardwareBadState"}

---------------------------------------------------------------------------
(* request.rs: Request                                                     *)

\* variant: the closure hands the error on as it is
Request_queue_map_err_identity(err, fd, api) == err

\* variant: the remapped kinds do not keep the errno
Request_queue_map_err_no_code(err, fd, api) ==
    IF err.kind = "Ioctl"
    THEN CASE err.code = EBUSY  -> [kind |-> "RequestIsAlreadyQueued", fd |-> fd, code |-> 0, api |-> api]
           [] err.code = ENOENT -> [kind |-> "RequestNotContainBuffers", fd |-> fd, code |-> 0, api |-> api]
           [] err.code = ENOMEM -> [kind |-> "OutOfMemory", fd |-> fd, code |-> 0, api |-> api]
           [] err.code = EINVAL -> [kind |-> "RequestHasInvalidData", fd |-> fd, code |-> 0, api |-> api]
           [] err.code = EIO    -> [kind |-> "HardwareBadState", fd |-> fd, code |-> 0, api |-> api]
           [] OTHER             -> err
    ELSE err

\* Request::queue's map_err closure
Request_queue_map_err(err, fd, api) ==
    IF err.kind = "Ioctl"
    THEN CASE err.code = EBUSY  -> [kind |-> "RequestIsAlreadyQueued", fd |-> fd, code |-> err.code, api |-> api]
           [] err.code = ENOENT -> [kind |-> "RequestNotContainBuffers", fd |-> fd, code |-> err.code, api |-> api]
           [] err.code = ENOMEM -> [kind |-> "OutOfMemory", fd |-> fd, code |-> err.code, api |-> api]
           [] err.code = EINVAL -> [kind |-> "RequestHasInvalidData", fd |-> fd, code |-> err.code, api |-> api]
           [] err.code = EIO    -> [kind |-> "HardwareBadState", fd |-> fd, code |-> err.code, api |-> api]
           [] OTHER             -> err
    ELSE err

\* Request::queue, given what libc::ioctl returned
Request_queue_result(fd, ret, errno) ==
    LET r == ioctl(fd, "MEDIA_REQUEST_IOC_QUEUE", ret, errno)
    IN  IF IsErr(r)
        THEN Err(Request_queue_map_err(r.err, fd, "MEDIA_REQUEST_IOC_QUEUE"))
        ELSE r

\* Request::init, given what libc::ioctl returned
Request_init_result(fd, ret, errno) ==
    ioctl(fd, "MEDIA_REQUEST_IOC_REINIT", ret, errno)

\* kernel, MEDIA_REQUEST_IOC_REINIT: refused with EBUSY while the request is
\* queued and not completed; no other failure
KernelReinitErrnos(state) ==
    IF state = "Queued" THEN {EBUSY} ELSE {0}

\* kernel, MEDIA_REQUEST_IOC_QUEUE: EBUSY when already queued; otherwise it
\* succeeds or fails validation, allocation or the hardware; a completed
\* request may also be refused with EBUSY until it is reinitialised
KernelQueueErrnos(state) ==
    CASE state = "Queued"    -> {EBUSY}
      [] state = "Completed" -> {0, EBUSY, ENOENT, ENOMEM, EINVAL, EIO}
      [] OTHER               -> {0, ENOENT, ENOMEM, EINVAL, EIO}

\* kernel, MEDIA_IOC_REQUEST_ALLOC: succeeds or fails
KernelAllocErrnos == {0, ENOMEM, ENOTTY, EBUSY}

\* a control call of the layer: the operation, the descriptor, the lifecycle
\* state of the request before it (pre), the errno the kernel gave (0 on
\* success) and the Result returned to the caller
Call(op, fd, pre, errno, result) ==
    [op |-> op, fd |-> fd, pre |-> pre, errno |-> errno, result |-> result]

\* Request::new / Media::new_request
Request_new ==
    /\ UNCHANGED <<verVars, iterVars, topoVars, decVars, linkVars>>
    /\ \E errno \in KernelAllocErrnos :
        IF errno = 0
        THEN \E r \in RequestFds :
                /\ reqState[r] = "Unallocated"
                /\ reqState' = [reqState EXCEPT ![r] = "Allocated"]
                /\ lastCall' = Call("new", MediaFd, "Unallocated", 0, Ok(r))
        ELSE /\ lastCall' = Call("new", MediaFd, "Unallocated", errno,
                                 ioctl(MediaFd, "MEDIA_IOC_REQUEST_ALLOC", -1, errno))
             /\ UNCHANGED reqState

\* Request::init
Request_init(r) ==
    /\ UNCHANGED <<verVars, iterVars, topoVars, decVars, linkVars>>
    /\ reqState[r] # "Unallocated"
    /\ \E errno \in KernelReinitErrnos(reqState[r]) :
          /\ lastCall' = Call("init", r, reqState[r], errno,
                              Request_init_result(r, IF errno = 0 THEN 0 ELSE -1, errno))
          /\ reqState' = IF errno = 0
                         THEN [reqState EXCEPT ![r] = "Allocated"]
                         ELSE reqState

\* Request::queue
Request_queue(r) ==
    /\ UNCHANGED <<verVars, iterVars, topoVars, decVars, linkVars>>
    /\ reqState[r] # "Unallocated"
    /\ \E errno \in KernelQueueErrnos(reqState[r]) :
          /\ lastCall' = Call("queue", r, reqState[r], errno,
                              Request_queue_result(r, IF errno = 0 THEN 0 ELSE -1, errno))
          /\ reqState' = IF errno = 0
                         THEN [reqState EXCEPT ![r] = "Queued"]
                         ELSE reqState

\* the hardware completes a queued request (outside the library)
Complete(r) ==
    /\ UNCHANGED <<verVars, iterVars, topoVars, decVars, linkVars>>
    /\ reqState[r] = "Queued"
    /\ reqState' = [reqState EXCEPT ![r] = "Completed"]
    /\ lastCall' = Call("complete", r, reqState[r], 0, Ok(NoVal))

\* Drop of the Request: its OwnedFd is closed
Request_drop(r) ==
    /\ UNCHANGED <<verVars, iterVars, topoVars, decVars, linkVars>>
    /\ reqState[r] # "Unallocated"
    /\ reqState' = [reqState EXCEPT ![r] = "Unallocated"]
    /\ lastCall' = Call("drop", r, reqState[r], 0, Ok(NoVal))

\* any control call issued through ioctl! that the kernel fails
IoctlFails ==
    /\ UNCHANGED <<verVars, iterVars, topoVars, decVars, linkVars>>
    /\ \E fd \in Fds, api \in GenericApis, errno \in Errnos :
        /\ lastCall' = Call(api, fd, NoVal, errno, ioctl(fd, api, -1, errno))
        /\ UNCHANGED reqState

CtlNext ==
    \/ Request_new
    \/ \E r \in RequestFds : Request_init(r)
    \/ \E r \in RequestFds : Request_queue(r)
    \/ \E r \in RequestFds : Complete(r)
    \/ \E r \in RequestFds : Request_drop(r)
    \/ IoctlFails

---------------------------------------------------------------------------
(* version.rs: Version                                                     *)

\* the values of a u8 component the model draws from
VersionComponents == {0, 1, 4, 18, 19, 128, 255}

Version_new(major, minor, patch) ==
    [major |-> major, minor |-> minor, patch |-> patch]

Versions ==
    {Version_new(a, b, c) : a \in VersionComponents, b \in VersionComponents,
                            c \in VersionComponents}

\* variant: minor shifted by 16 like major
Version_into_u32_minor_shift(v) ==
    v.major * 65536 + v.minor * 65536 + v.patch

\* impl Into<u32> for Version: the three shifted components have no bit in
\* common, so the bit or is their sum
Version_into_u32(v) ==
    v.major * 65536 + v.minor * 256 + v.patch

\* impl From<u32> for Version: mask with 0xFF << k, shift right by k, as u8
Version_from_u32(n) ==
    [major |-> (n \div 65536) % 256,
     minor |-> (n \div 256) % 256,
     patch |-> n % 256]

\* the caller makes another Version
NewVersion ==
    /\ UNCHANGED <<ctlVars, iterVars, topoVars, decVars, linkVars>>
    /\ \E v \in Versions :
        /\ ver' = v
        /\ packed' = None
        /\ decoded' = None

\* let n: u32 = ver.into()
PackVersion ==
    /\ UNCHANGED <<ctlVars, iterVars, topoVars, decVars, linkVars>>
    /\ ~packed.some
    /\ packed' = Some(Version_into_u32(ver))
    /\ UNCHANGED <<ver, decoded>>

\* Version::from(n)
UnpackVersion ==
    /\ UNCHANGED <<ctlVars, iterVars, topoVars, decVars, linkVars>>
    /\ packed.some
    /\ ~decoded.some
    /\ decoded' = Some(Version_from_u32(packed.val))
    /\ UNCHANGED <<ver, packed>>

VerNext ==
    \/ NewVersion
    \/ PackVersion
    \/ UnpackVersion

---------------------------------------------------------------------------
(* media_entity.rs: the decoders of an entity's function and flags         *)

MEDIA_ENT_F_UNKNOWN    == 0
MEDIA_ENT_F_IO_V4L     == 65537
MEDIA_ENT_F_CAM_SENSOR == 131073
\* MEDIA_ENT_F_CONN_RF: its arm of the match is commented out
MEDIA_ENT_F_CONN_RF    == 196609

MEDIA_ENT_FL_DEFAULT   == 1
MEDIA_ENT_FL_CONNECTOR == 2

\* the raw values among those the model draws that the match of
\* impl TryFrom<u32> for MediaEntityFunctions has an arm for
KnownEntityFunctions ==
    {MEDIA_ENT_F_UNKNOWN, MEDIA_ENT_F_IO_V4L, MEDIA_ENT_F_CAM_SENSOR}

MediaEntityFunctions_try_from(v) ==
    IF v \in KnownEntityFunctions
    THEN Ok(v)
    ELSE Err([kind |-> "EntityFunctionsParseError", from |-> v])

MediaEntityFlags_try_from(v) ==
    CASE v = MEDIA_ENT_FL_DEFAULT   -> Ok("MEDIA_ENT_FL_DEFAULT")
      [] v = MEDIA_ENT_FL_CONNECTOR -> Ok("MEDIA_ENT_FL_CONNECTOR")
      [] OTHER -> Err([kind |-> "EntityFlagsParseError", from |-> v])

---------------------------------------------------------------------------
(* media_entity_desc.rs: MediaEntityDesc and MediaEntityIter               *)

\* An EntityId is a u32: bit 31 (MEDIA_ENT_ID_FLAG_NEXT) and the low 31 bits.
EntityId(next, num) == [next |-> next, num |-> num]

\* id | MEDIA_ENT_ID_FLAG_NEXT
WithFlagNext(id) == EntityId(TRUE, id.num)

\* the largest entity id of the modelled device
MaxEntityId == 3

\* the raw media_entity_desc records a device may report for an entity
RawDescs(i) ==
    {[id |-> EntityId(FALSE, i), type_ |-> t, flags |-> f, pads |-> 1, links |-> 0] :
        t \in {MEDIA_ENT_F_IO_V4L, MEDIA_ENT_F_CONN_RF},
        f \in {0, MEDIA_ENT_FL_DEFAULT}}

\* a device: the entities it holds, by id, and whether its lookups may fail
\* for a reason other than a missing entity
EntityMaps ==
    UNION {[S -> UNION {RawDescs(i) : i \in S}] : S \in SUBSET (1..MaxEntityId)}

EntityDevices ==
    {[ents |-> e, flaky |-> f] :
        e \in {m \in EntityMaps : \A i \in DOMAIN m : m[i].id = EntityId(FALSE, i)},
        f \in BOOLEAN}

\* impl From<media_entity_desc> for MediaEntityDesc
MediaEntityDesc_from(raw) ==
    LET t == MediaEntityFunctions_try_from(raw.type_)
        f == MediaEntityFlags_try_from(raw.flags)
    IN  IF IsErr(t) THEN Panic(t.err)
        ELSE IF IsErr(f) THEN Panic(f.err)
        ELSE Ok([id |-> raw.id, type |-> t.val, flags |-> f.val,
                 pads |-> raw.pads, links |-> raw.links])

\* kernel, MEDIA_IOC_ENUM_ENTITIES: with MEDIA_ENT_ID_FLAG_NEXT the driver
\* clears the flag and returns the first entity with a larger id, without it
\* the entity with that id; EINVAL when there is none
KernelFindEntity(d, id) ==
    LET cand == IF id.next THEN {i \in DOMAIN d.ents : i > id.num}
                ELSE {i \in DOMAIN d.ents : i = id.num}
    IN  IF cand = {} THEN Err(EINVAL)
        ELSE Ok(d.ents[CHOOSE i \in cand : \A j \in cand : i <= j])

\* the outcomes the kernel may give a lookup
KernelEnumEntities(d, id) ==
    {KernelFindEntity(d, id)} \cup
    (IF d.flaky THEN {Err(EBUSY), Err(ENOTTY)} ELSE {})

\* variant: only a missing entity ends the iteration, any other errno unwinds
MediaEntityIter_desc_strict(fd, k) ==
    LET r == ioctl(fd, "MEDIA_IOC_ENUM_ENTITIES",
                   IF IsOk(k) THEN 0 ELSE -1, IF IsOk(k) THEN 0 ELSE k.err)
    IN  IF IsOk(r)
        THEN LET d == MediaEntityDesc_from(k.val)
             IN  IF IsOk(d) THEN Ok(Some(d.val)) ELSE d
        ELSE IF k.err = EINVAL THEN Ok(None)
        ELSE Panic(r.err)

\* MediaEntityIter::desc, given the kernel's outcome k: Ok(Some), Ok(None) or Panic
MediaEntityIter_desc(fd, k) ==
    LET r == ioctl(fd, "MEDIA_IOC_ENUM_ENTITIES",
                   IF IsOk(k) THEN 0 ELSE -1, IF IsOk(k) THEN 0 ELSE k.err)
    IN  IF IsOk(r)
        THEN LET d == MediaEntityDesc_from(k.val)
             IN  IF IsOk(d) THEN Ok(Some(d.val)) ELSE d
        ELSE Ok(None)

\* MediaEntity::from_desc: the entity of a descriptor
MediaEntity_from_desc(version, desc) ==
    [id |-> desc.id, function |-> desc.type]

\* the start ids a caller may pass
StartIds ==
    {EntityId(n, i) : n \in BOOLEAN, i \in 0..(MaxEntityId + 1)}

IterVersions == {Version_new(4, 18, 0), Version_new(4, 19, 0)}

NoIter ==
    [pc |-> "unborn", fd |-> MediaFd, media_version |-> Version_new(0, 0, 0),
     start |-> EntityId(FALSE, 0), id |-> EntityId(FALSE, 0), desc |-> None,
     last |-> NoVal, queries |-> 0, asked |-> <<>>, errno |-> 0]

\* the errno of a lookup's outcome, 0 when it succeeded
ErrnoOf(k) == IF IsOk(k) THEN 0 ELSE k.err

\* MediaEntityIter::new
MediaEntityIter_new ==
    /\ UNCHANGED <<ctlVars, verVars, topoVars, decVars, linkVars>>
    /\ iter.pc = "unborn"
    /\ \E s \in StartIds, v \in IterVersions :
       \E k \in KernelEnumEntities(entDev, s) :
          LET d == MediaEntityIter_desc(MediaFd, k)
          IN  iter' = [iter EXCEPT !.pc = IF IsPanic(d) THEN "panic" ELSE "live",
                                   !.media_version = v,
                                   !.start = s,
                                   !.id = s,
                                   !.desc = IF IsPanic(d) THEN None ELSE d.val,
                                   !.queries = 1,
                                   !.asked = <<s>>,
                                   !.errno = ErrnoOf(k)]
    /\ UNCHANGED <<entDev, yielded>>

\* impl Iterator for MediaEntityIter: next(), self.desc is Some
MediaEntityIter_next_some ==
    /\ UNCHANGED <<ctlVars, verVars, topoVars, decVars, linkVars>>
    /\ iter.pc = "live"
    /\ iter.desc.some
    /\ \E k \in KernelEnumEntities(entDev, WithFlagNext(iter.id)) :
          LET entity == MediaEntity_from_desc(iter.media_version, iter.desc.val)
              d == MediaEntityIter_desc(iter.fd, k)
          IN  IF IsPanic(d)
              THEN /\ iter' = [iter EXCEPT !.pc = "panic", !.queries = @ + 1,
                                            !.asked = Append(@, WithFlagNext(iter.id)),
                                            !.errno = ErrnoOf(k)]
                   /\ UNCHANGED yielded
              ELSE /\ iter' = [iter EXCEPT
                                  !.id = IF d.val.some THEN d.val.val.id ELSE @,
                                  !.desc = d.val,
                                  !.last = "Some",
                                  !.queries = @ + 1,
                                  !.asked = Append(@, WithFlagNext(iter.id)),
                                  !.errno = ErrnoOf(k)]
                   /\ yielded' = Append(yielded, entity.id)
    /\ UNCHANGED entDev

\* variant: next() on an exhausted cursor looks the start id up again
MediaEntityIter_next_restart ==
    /\ UNCHANGED <<ctlVars, verVars, topoVars, decVars, linkVars>>
    /\ iter.pc = "live"
    /\ ~iter.desc.some
    /\ \E k \in KernelEnumEntities(entDev, iter.start) :
          LET d == MediaEntityIter_desc(iter.fd, k)
          IN  iter' = [iter EXCEPT !.pc = IF IsPanic(d) THEN "panic" ELSE "live",
                                   !.id = iter.start,
                                   !.desc = IF IsPanic(d) THEN None ELSE d.val,
                                   !.last = "None",
                                   !.queries = @ + 1,
                                   !.asked = Append(@, iter.start),
                                   !.errno = ErrnoOf(k)]
    /\ UNCHANGED <<entDev, yielded>>

\* impl Iterator for MediaEntityIter: next(), self.desc is None
MediaEntityIter_next_none ==
    /\ UNCHANGED <<ctlVars, verVars, topoVars, decVars, linkVars>>
    /\ iter.pc = "live"
    /\ ~iter.desc.some
    /\ iter' = [iter EXCEPT !.last = "None"]
    /\ UNCHANGED <<entDev, yielded>>

IterNext ==
    \/ MediaEntityIter_new
    \/ MediaEntityIter_next_some
    \/ MediaEntityIter_next_none

---------------------------------------------------------------------------
(* 32-bit flag words as sets of bit positions.                             *)

Bits32       == 0..31
BitAnd(a, b) == a \cap b
BitOr(a, b)  == a \cup b
BitNot(a)    == Bits32 \ a

MEDIA_PAD_FL_SINK         == {0}
MEDIA_PAD_FL_SOURCE       == {1}
MEDIA_PAD_FL_MUST_CONNECT == {2}

MEDIA_LNK_FL_ENABLED        == {0}
MEDIA_LNK_FL_IMMUTABLE      == {1}
MEDIA_LNK_FL_DYNAMIC        == {2}
MEDIA_LNK_FL_LINK_TYPE      == {28, 29, 30, 31}
MEDIA_LNK_FL_DATA_LINK      == {}
MEDIA_LNK_FL_INTERFACE_LINK == {28}
MEDIA_LNK_FL_ANCILLARY_LINK == {29}

MEDIA_INTF_T_DVB_FE    == 256
MEDIA_INTF_T_V4L_VIDEO == 512

---------------------------------------------------------------------------
(* The capability gates: the kernel's MEDIA_V2_ENTITY_HAS_FLAGS and        *)
(* MEDIA_V2_PAD_HAS_INDEX compare the packed version with 4.19.0.          *)

MediaEntity_has_flags(version) ==
    Version_into_u32(version) >= Version_into_u32(Version_new(4, 19, 0))

MediaPad_has_index(version) ==
    Version_into_u32(version) >= Version_into_u32(Version_new(4, 19, 0))

---------------------------------------------------------------------------
(* The decoders of the records of a topology.                              *)

\* media_pad.rs: impl TryFrom<u32> for MediaPadFlags
MediaPadFlags_try_from(v) ==
    IF BitAnd(v, MEDIA_PAD_FL_SINK) # {}
    THEN IF BitAnd(v, MEDIA_PAD_FL_MUST_CONNECT) # {}
         THEN Ok("SinkMustConnect") ELSE Ok("Sink")
    ELSE IF BitAnd(v, MEDIA_PAD_FL_SOURCE) # {}
    THEN IF BitAnd(v, MEDIA_PAD_FL_MUST_CONNECT) # {}
         THEN Ok("SourceMustConnect") ELSE Ok("Source")
    ELSE Err([kind |-> "PadFlagsParseError", from |-> v])

\* variant: the index is kept whatever the version
MediaPad_from_always_index(version, pad) ==
    LET f == MediaPadFlags_try_from(pad.flags)
    IN  IF IsErr(f) THEN Panic(f.err)
        ELSE Ok([id |-> pad.id, entity_id |-> pad.entity_id, flags |-> f.val,
                 index |-> Some(pad.index)])

\* media_pad.rs: MediaPad::from
MediaPad_from(version, pad) ==
    LET f == MediaPadFlags_try_from(pad.flags)
    IN  IF IsErr(f) THEN Panic(f.err)
        ELSE Ok([id |-> pad.id, entity_id |-> pad.entity_id, flags |-> f.val,
                 index |-> IF MediaPad_has_index(version)
                           THEN Some(pad.index) ELSE None])

\* media_interface_type.rs: impl TryFrom<u32> for MediaInterfaceType, for
\* the raw values the model draws
MediaInterfaceType_try_from(v) ==
    CASE v = MEDIA_INTF_T_DVB_FE    -> Ok("DigitalTVFrontEnd")
      [] v = MEDIA_INTF_T_V4L_VIDEO -> Ok("V4LVideo")
      [] OTHER -> Err([kind |-> "InterfaceTypeParseError", from |-> v])

\* media_interface.rs: impl From<media_v2_interface> for MediaInterface
MediaInterface_from(intf) ==
    LET t == MediaInterfaceType_try_from(intf.intf_type)
    IN  IF IsErr(t) THEN Panic(t.err)
        ELSE Ok([id |-> intf.id, type |-> t.val, devnode |-> intf.devnode])

\* bitflags: MediaLinkFlags::from_bits
MediaLinkFlags_from_bits(v) ==
    IF v \subseteq BitOr(MEDIA_LNK_FL_ENABLED,
                         BitOr(MEDIA_LNK_FL_IMMUTABLE, MEDIA_LNK_FL_DYNAMIC))
    THEN Some(v) ELSE None

\* variant: the flags decoded keep the bits of the link type
MediaLinkFlags_try_from_keep_type(v) ==
    LET b == MediaLinkFlags_from_bits(BitAnd(v, BitNot(MEDIA_LNK_FL_LINK_TYPE)))
    IN  IF b.some THEN Ok(v)
        ELSE Err([kind |-> "LinkTypeParseError", from |-> v])

\* media_link.rs: impl TryFrom<u32> for MediaLinkFlags
MediaLinkFlags_try_from(v) ==
    LET b == MediaLinkFlags_from_bits(BitAnd(v, BitNot(MEDIA_LNK_FL_LINK_TYPE)))
    IN  IF b.some THEN Ok(b.val)
        ELSE Err([kind |-> "LinkTypeParseError", from |-> v])

\* variant: a link of unknown type taken as a data link
MediaLink_from_default_type(link) ==
    LET t == BitAnd(link.flags, MEDIA_LNK_FL_LINK_TYPE)
        f == MediaLinkFlags_try_from(link.flags)
    IN  IF IsErr(f) THEN Panic(f.err)
        ELSE Ok([id |-> link.id,
                 type |-> [kind |-> IF t = MEDIA_LNK_FL_INTERFACE_LINK THEN "InterfaceLink"
                                    ELSE IF t = MEDIA_LNK_FL_ANCILLARY_LINK THEN "AncillaryLink"
                                    ELSE "DataLink",
                           source_id |-> link.source_id, sink_id |-> link.sink_id],
                 flags |-> f.val])

\* media_link.rs: impl From<media_v2_link> for MediaLink
MediaLink_from(link) ==
    LET t == BitAnd(link.flags, MEDIA_LNK_FL_LINK_TYPE)
        f == MediaLinkFlags_try_from(link.flags)
        kind == CASE t = MEDIA_LNK_FL_DATA_LINK      -> "DataLink"
                  [] t = MEDIA_LNK_FL_INTERFACE_LINK -> "InterfaceLink"
                  [] t = MEDIA_LNK_FL_ANCILLARY_LINK -> "AncillaryLink"
                  [] OTHER -> "unreachable"
    IN  IF kind = "unreachable"
        THEN Panic([kind |-> "unreachable", from |-> t])
        ELSE IF IsErr(f) THEN Panic(f.err)
        ELSE Ok([id |-> link.id,
                 type |-> [kind |-> kind, source_id |-> link.source_id,
                           sink_id |-> link.sink_id],
                 flags |-> f.val])

\* MediaEntity::from_raw_entity: the function must decode; the flags are
\* present when the gate holds and they decode
MediaEntity_from_raw_entity(version, ent) ==
    LET fn == MediaEntityFunctions_try_from(ent.function)
        fl == MediaEntityFlags_try_from(ent.flags)
    IN  IF IsErr(fn) THEN Panic(fn.err)
        ELSE Ok([id |-> ent.id, function |-> fn.val,
                 flags |-> IF MediaEntity_has_flags(version) /\ IsOk(fl)
                           THEN Some(fl.val) ELSE None])

\* media_entity.rs: impl From<media_v2_entity> for MediaEntity: the function
\* is unwrapped, the flags are try_into().ok()
MediaEntity_from(entity) ==
    LET fn == MediaEntityFunctions_try_from(entity.function)
        fl == MediaEntityFlags_try_from(entity.flags)
    IN  IF IsErr(fn) THEN Panic(fn.err)
        ELSE Ok([id |-> entity.id, function |-> fn.val,
                 flags |-> IF IsOk(fl) THEN Some(fl.val) ELSE None])

\* xs.into_iter().map(f).collect(): the first panic unwinds
RECURSIVE Collect(_, _)
Collect(decodedSeq, acc) ==
    IF decodedSeq = <<>> THEN Ok(acc)
    ELSE IF IsPanic(Head(decodedSeq)) THEN Head(decodedSeq)
    ELSE Collect(Tail(decodedSeq), Append(acc, Head(decodedSeq).val))

DecodeEntities(version, raw) ==
    Collect([i \in 1..Len(raw) |-> MediaEntity_from_raw_entity(version, raw[i])], <<>>)
DecodeInterfaces(raw) ==
    Collect([i \in 1..Len(raw) |-> MediaInterface_from(raw[i])], <<>>)
DecodePads(version, raw) ==
    Collect([i \in 1..Len(raw) |-> MediaPad_from(version, raw[i])], <<>>)
DecodeLinks(raw) ==
    Collect([i \in 1..Len(raw) |-> MediaLink_from(raw[i])], <<>>)

---------------------------------------------------------------------------
(* The conversions on their own: one raw value in, one outcome out.        *)

\* the media versions around the gates' threshold 4.19.0
DecodeVersions ==
    {Version_new(3, 255, 255), Version_new(4, 18, 0), Version_new(4, 18, 255),
     Version_new(4, 19, 0), Version_new(4, 19, 1), Version_new(5, 0, 0)}

\* pad flag words: SINK, SOURCE, MUST_CONNECT and a bit no flag defines
PadFlagWords == SUBSET {0, 1, 2, 3}

\* link flag words: ENABLED, IMMUTABLE, DYNAMIC, a bit no flag defines and
\* the two low bits of the link type
LinkFlagWords == SUBSET {0, 1, 2, 3, 28, 29}

\* entity flag words: 0, DEFAULT, CONNECTOR, both, and values with a bit no
\* flag defines
EntityFlagWords == {0, 1, 2, 3, 4, 5}

RawPads ==
    {[id |-> 5, entity_id |-> 1, flags |-> f, index |-> i] :
        f \in PadFlagWords, i \in {0, 1}}

RawEntities ==
    {[id |-> 1, function |-> fn, flags |-> f] :
        fn \in {MEDIA_ENT_F_IO_V4L, MEDIA_ENT_F_CONN_RF}, f \in EntityFlagWords}

RawLinks ==
    {[id |-> 7, source_id |-> 5, sink_id |-> 6, flags |-> f] : f \in LinkFlagWords}

\* a conversion: which, the media version in force, the raw input, the outcome
Conversion(op, version, raw, result) ==
    [op |-> op, version |-> version, raw |-> raw, result |-> result]

NoDec == Conversion("none", Version_new(0, 0, 0), NoVal, [tag |-> "None"])

\* MediaPadFlags::try_from(v)
Decode_pad_flags ==
    /\ UNCHANGED <<ctlVars, verVars, iterVars, topoVars, linkVars>>
    /\ \E version \in DecodeVersions, v \in PadFlagWords :
          dec' = Conversion("pad_flags", version, v, MediaPadFlags_try_from(v))

\* MediaEntityFlags::try_from(v)
Decode_entity_flags ==
    /\ UNCHANGED <<ctlVars, verVars, iterVars, topoVars, linkVars>>
    /\ \E version \in DecodeVersions, v \in EntityFlagWords :
          dec' = Conversion("entity_flags", version, v, MediaEntityFlags_try_from(v))

\* MediaLinkFlags::try_from(v)
Decode_link_flags ==
    /\ UNCHANGED <<ctlVars, verVars, iterVars, topoVars, linkVars>>
    /\ \E version \in DecodeVersions, v \in LinkFlagWords :
          dec' = Conversion("link_flags", version, v, MediaLinkFlags_try_from(v))

\* MediaPad::from(version, pad)
Decode_pad ==
    /\ UNCHANGED <<ctlVars, verVars, iterVars, topoVars, linkVars>>
    /\ \E version \in DecodeVersions, pad \in RawPads :
          dec' = Conversion("pad", version, pad, MediaPad_from(version, pad))

\* MediaEntity::from(entity), on a device of the given media version
Decode_entity ==
    /\ UNCHANGED <<ctlVars, verVars, iterVars, topoVars, linkVars>>
    /\ \E version \in DecodeVersions, entity \in RawEntities :
          dec' = Conversion("entity", version, entity, MediaEntity_from(entity))

\* MediaLink::from(link)
Decode_link ==
    /\ UNCHANGED <<ctlVars, verVars, iterVars, topoVars, linkVars>>
    /\ \E version \in DecodeVersions, link \in RawLinks :
          dec' = Conversion("link", version, link, MediaLink_from(link))

DecodeNext ==
    \/ Decode_pad_flags
    \/ Decode_entity_flags
    \/ Decode_link_flags
    \/ Decode_pad
    \/ Decode_entity
    \/ Decode_link

---------------------------------------------------------------------------
(* media_pad_desc.rs: MediaPadDesc and the raw media_pad_desc              *)

\* the values of the u16 field media_pad_desc.index: 0 .. U16 - 1
U16 == 65536

\* media_pad.rs: impl From<MediaPadFlags> for u32
MediaPadFlags_into_u32(flags) ==
    CASE flags = "Sink"              -> MEDIA_PAD_FL_SINK
      [] flags = "Source"            -> MEDIA_PAD_FL_SOURCE
      [] flags = "SinkMustConnect"   -> BitOr(MEDIA_PAD_FL_SINK, MEDIA_PAD_FL_MUST_CONNECT)
      [] flags = "SourceMustConnect" -> BitOr(MEDIA_PAD_FL_SOURCE, MEDIA_PAD_FL_MUST_CONNECT)

\* impl From<media_pad_desc> for MediaPadDesc
MediaPadDesc_from(desc) ==
    LET f == MediaPadFlags_try_from(desc.flags)
    IN  IF IsErr(f) THEN Panic(f.err)
        ELSE Ok([entity |-> desc.entity, index |-> desc.index, flags |-> f.val])

\* variant: the index is stored as it is
MediaPadDesc_into_raw_wide(desc) ==
    [entity |-> desc.entity, index |-> desc.index,
     flags |-> MediaPadFlags_into_u32(desc.flags)]

\* impl From<MediaPadDesc> for media_pad_desc: index as u16
MediaPadDesc_into_raw(desc) ==
    [entity |-> desc.entity, index |-> desc.index % U16,
     flags |-> MediaPadFlags_into_u32(desc.flags)]

\* the variants of the enum MediaPadFlags
PadFlagNames == {"Sink", "Source", "SinkMustConnect", "SourceMustConnect"}

\* pad indexes (usize) around the range of the raw u16 field
PadIndexes == {0, 1, U16 - 1, U16, U16 + 1, 2 * U16 - 1, 2 * U16}

\* entity ids (u32), with and without bit 31
PadEntities == {EntityId(n, i) : n \in BOOLEAN, i \in {0, 1, 2}}

\* the MediaPadDesc values MediaPadDesc::new can build
PadDescs ==
    {[entity |-> e, index |-> i, flags |-> f] :
        e \in PadEntities, i \in PadIndexes, f \in PadFlagNames}

\* the raw media_pad_desc records the kernel may hand over
RawPadDescs ==
    {[entity |-> e, index |-> i, flags |-> f] :
        e \in {EntityId(FALSE, 0), EntityId(FALSE, 1)}, i \in {0, 1, U16 - 1},
        f \in PadFlagWords}

\* MediaPadDesc -> media_pad_desc -> MediaPadDesc
PadDesc_round_trip ==
    /\ UNCHANGED <<ctlVars, verVars, iterVars, topoVars, linkVars>>
    /\ \E desc \in PadDescs :
          LET raw == MediaPadDesc_into_raw(desc)
          IN  dec' = Conversion("pad_desc_round_trip", Version_new(0, 0, 0),
                                [desc |-> desc, raw |-> raw], MediaPadDesc_from(raw))

\* MediaPadDesc::from(raw)
Decode_pad_desc ==
    /\ UNCHANGED <<ctlVars, verVars, iterVars, topoVars, linkVars>>
    /\ \E raw \in RawPadDescs :
          dec' = Conversion("pad_desc", Version_new(0, 0, 0), raw, MediaPadDesc_from(raw))

PadDescNext ==
    \/ PadDesc_round_trip
    \/ Decode_pad_desc

---------------------------------------------------------------------------
(* The names: fixed-size byte buffers of the raw records, decoded with     *)
(* CStr.  A byte is a number in 0..255; a decoded String is the sequence   *)
(* of its characters' code points.                                         *)

\* the length of a name buffer in the model (32 or 64 in the raw records)
NameLen == 3

\* the bytes a buffer may hold: NUL, two ASCII letters, a byte that is not
\* valid UTF-8
NameBytes == {0, 65, 66, 255}

NameBuffers == [1..NameLen -> NameBytes]

\* U+FFFD REPLACEMENT CHARACTER
REPLACEMENT_CHARACTER == 65533

\* the position of the first NUL of a byte sequence, 0 when it has none
FirstNul(bytes) ==
    IF \E i \in 1..Len(bytes) : bytes[i] = 0
    THEN CHOOSE i \in 1..Len(bytes) :
            bytes[i] = 0 /\ \A j \in 1..(i - 1) : bytes[j] # 0
    ELSE 0

\* CStr::from_bytes_until_nul
CStr_from_bytes_until_nul(bytes) ==
    IF FirstNul(bytes) = 0 THEN Err([kind |-> "FromBytesUntilNulError"])
    ELSE Ok(SubSeq(bytes, 1, FirstNul(bytes) - 1))

\* CStr::to_string_lossy().to_string(): a byte that is not valid UTF-8
\* becomes U+FFFD
to_string_lossy(bytes) ==
    [i \in 1..Len(bytes) |->
        IF bytes[i] < 128 THEN bytes[i] ELSE REPLACEMENT_CHARACTER]

\* CStr::from_bytes_until_nul(&name).unwrap().to_string_lossy().to_string()
Name_from_bytes_until_nul(buf) ==
    LET c == CStr_from_bytes_until_nul(buf)
    IN  IF IsErr(c) THEN Panic(c.err) ELSE Ok(to_string_lossy(c.val))

\* the memory that follows a name buffer, as CStr::from_ptr may find it:
\* a NUL at once, bytes and then a NUL, or no readable byte at all
MemoryAfter == {<<0>>, <<65, 0>>, <<255, 0>>, <<>>}

\* CStr::from_ptr(name.as_ptr()).to_string_lossy().to_string(): the scan
\* for the NUL is not bounded by the buffer, it runs on into the memory
\* after it
Name_from_ptr(buf, after) ==
    LET mem == buf \o after
    IN  IF FirstNul(mem) = 0 THEN Panic([kind |-> "SIGSEGV"])
        ELSE Ok(to_string_lossy(SubSeq(mem, 1, FirstNul(mem) - 1)))

\* MediaEntity::from: the name of a media_v2_entity
Decode_entity_name ==
    /\ UNCHANGED <<ctlVars, verVars, iterVars, topoVars, linkVars>>
    /\ \E buf \in NameBuffers :
          dec' = Conversion("entity_name", Version_new(0, 0, 0), buf,
                            Name_from_bytes_until_nul(buf))

\* MediaDeviceInfo::from: driver, model, serial and bus_info
Decode_info_name ==
    /\ UNCHANGED <<ctlVars, verVars, iterVars, topoVars, linkVars>>
    /\ \E buf \in NameBuffers :
          dec' = Conversion("info_name", Version_new(0, 0, 0), buf,
                            Name_from_bytes_until_nul(buf))

\* MediaEntityDesc::from: the name of a media_entity_desc
Decode_desc_name ==
    /\ UNCHANGED <<ctlVars, verVars, iterVars, topoVars, linkVars>>
    /\ \E buf \in NameBuffers, after \in MemoryAfter :
          dec' = Conversion("desc_name", Version_new(0, 0, 0), buf,
                            Name_from_ptr(buf, after))

NamesNext ==
    \/ Decode_entity_name
    \/ Decode_info_name
    \/ Decode_desc_name

---------------------------------------------------------------------------
(* kernel: the media graph and MEDIA_IOC_G_TOPOLOGY                        *)

Kinds == {"entities", "interfaces", "pads", "links"}

\* the records the modelled graph may hold, in the order the kernel lists them
Pool ==
    [entities |->
        << [id |-> 1, function |-> MEDIA_ENT_F_IO_V4L, flags |-> MEDIA_ENT_FL_DEFAULT],
           [id |-> 2, function |-> MEDIA_ENT_F_CONN_RF, flags |-> 0] >>,
     interfaces |->
        << [id |-> 3, intf_type |-> MEDIA_INTF_T_V4L_VIDEO,
            devnode |-> [major |-> 81, minor |-> 0]],
           [id |-> 4, intf_type |-> 0, devnode |-> [major |-> 81, minor |-> 1]] >>,
     pads |->
        << [id |-> 5, entity_id |-> 1, flags |-> MEDIA_PAD_FL_SINK, index |-> 0],
           [id |-> 6, entity_id |-> 1, flags |-> {3}, index |-> 1] >>,
     links |->
        << [id |-> 7, source_id |-> 5, sink_id |-> 5, flags |-> MEDIA_LNK_FL_ENABLED],
           [id |-> 8, source_id |-> 3, sink_id |-> 1,
            flags |-> BitOr(MEDIA_LNK_FL_INTERFACE_LINK, MEDIA_LNK_FL_ENABLED)],
           [id |-> 9, source_id |-> 5, sink_id |-> 5, flags |-> {30}],
           [id |-> 10, source_id |-> 5, sink_id |-> 5, flags |-> {3}] >>]

\* std::mem::zeroed() of each raw record
Zeroed ==
    [entities   |-> [id |-> 0, function |-> 0, flags |-> 0],
     interfaces |-> [id |-> 0, intf_type |-> 0, devnode |-> [major |-> 0, minor |-> 0]],
     pads       |-> [id |-> 0, entity_id |-> 0, flags |-> {}, index |-> 0],
     links      |-> [id |-> 0, source_id |-> 0, sink_id |-> 0, flags |-> {}]]

\* the most records a graph holds, and the most mutations of one behaviour
MaxRecords   == 2
MaxMutations == 1

\* the records of pool p at the positions in S, in the pool's order
RECURSIVE SubSeqAt(_, _, _)
SubSeqAt(p, S, i) ==
    IF i > Len(p) THEN <<>>
    ELSE IF i \in S THEN <<p[i]>> \o SubSeqAt(p, S, i + 1)
    ELSE SubSeqAt(p, S, i + 1)

Lists(k) == {SubSeqAt(Pool[k], S, 1) : S \in SUBSET (1..Len(Pool[k]))}

GraphSize(g) ==
    Len(g.entities) + Len(g.interfaces) + Len(g.pads) + Len(g.links)

Graphs ==
    {g \in [entities : Lists("entities"), interfaces : Lists("interfaces"),
            pads : Lists("pads"), links : Lists("links")] :
        GraphSize(g) <= MaxRecords}

Device(g, version) ==
    [version |-> version, entities |-> g.entities, interfaces |-> g.interfaces,
     pads |-> g.pads, links |-> g.links]

\* kernel: the graph of the device's present generation
GraphNow(d) == [k \in Kinds |-> d[k]]

\* zeros_vec(num)
zeros_vec(k, num) == [i \in 1..num |-> Zeroed[k]]

\* the kernel copies its records over the start of the caller's buffer
KernelFill(buf, records) ==
    [i \in 1..Len(buf) |-> IF i <= Len(records) THEN records[i] ELSE buf[i]]

\* kernel, MEDIA_IOC_G_TOPOLOGY on the struct the caller passes: num and, per
\* kind, whether the pointer is not null and the buffer behind it.  ENOSPC
\* when a buffer is too small; otherwise the version, the counts and the
\* filled buffers.
KernelGTopology(d, num, ptr, buf) ==
    IF \E k \in Kinds : ptr[k] /\ Len(d[k]) > num[k]
    THEN Err(28)
    ELSE Ok([topology_version |-> d.version,
             num |-> [k \in Kinds |-> Len(d[k])],
             buf |-> [k \in Kinds |-> IF ptr[k] THEN KernelFill(buf[k], d[k])
                                      ELSE buf[k]]])

\* the outcomes the kernel may give the query: the above, or a failure of
\* the call itself
KernelGTopologyOutcomes(d, num, ptr, buf) ==
    {KernelGTopology(d, num, ptr, buf)} \cup {Err(EBUSY), Err(ENOTTY)}

NoCounts  == [k \in Kinds |-> 0]
NoPtrs    == [k \in Kinds |-> FALSE]
NoBufs    == [k \in Kinds |-> <<>>]
NoResult  == [tag |-> "None"]

Selections == [Kinds -> BOOLEAN]
AllKinds   == [k \in Kinds |-> TRUE]

\* a build: its position, the builder's selection, the version and counts of
\* the first call, what the second call reported (version2, buf), the graph
\* the kernel held at that generation (graph2), the queries issued (calls)
\* and the Result of from_fd
IdleRun ==
    [pc |-> "idle", sel |-> NoPtrs, version |-> 0, num |-> NoCounts,
     version2 |-> None, graph2 |-> NoBufs, buf |-> NoBufs, calls |-> <<>>,
     result |-> NoResult]

---------------------------------------------------------------------------
(* media_topology_builder.rs: MediaTopologyBuilder::from_fd                *)

\* variant: a failed first call is taken for an empty graph
Builder_first_swallow(fd, k) ==
    IF IsOk(k) THEN Ok(k.val)
    ELSE Ok([topology_version |-> 0, num |-> NoCounts, buf |-> NoBufs])

\* the first ioctl!(MEDIA_IOC_G_TOPOLOGY) on the zeroed struct, given the
\* kernel's outcome k
Builder_first(fd, k) ==
    LET r == ioctl(fd, "MEDIA_IOC_G_TOPOLOGY",
                   IF IsOk(k) THEN 0 ELSE -1, IF IsOk(k) THEN 0 ELSE k.err)
    IN  IF IsErr(r) THEN r ELSE Ok(k.val)

\* a query as issued: the counts, pointers and buffers passed, and whether
\* the kernel answered it
Query(num, ptr, buf, ok) == [num |-> num, ptr |-> ptr, buf |-> buf, ok |-> ok]

\* num_* of the struct at the second call: the fields are not written
\* between the calls, they hold what the first call reported
Builder_counts(sel, num) == num

\* the buffers and pointers set between the two calls
Builder_buffers(sel, num) ==
    [k \in Kinds |-> IF sel[k] THEN zeros_vec(k, num[k]) ELSE <<>>]

\* variant: ptr_pads left null
Builder_ptrs_pads_null(sel) == [k \in Kinds |-> sel[k] /\ k # "pads"]
Builder_ptrs(sel) == [k \in Kinds |-> sel[k]]

\* variants: Some whatever the selection; None for an empty collection
then_some_always(b, v) == Some(v)
then_some_nonempty(b, v) == IF b /\ v # <<>> THEN Some(v) ELSE None

\* bool::then_some
then_some(b, v) == IF b THEN Some(v) ELSE None

\* MediaTopology::new: the fields as given
MediaTopology_new(path, version, entities, interfaces, pads, links) ==
    [path |-> path, version |-> version, entities |-> entities,
     interfaces |-> interfaces, pads |-> pads, links |-> links]

\* variant: the versions of the two calls are not compared
Builder_second_no_version_check(sel, info_version, fd, version, k) ==
    LET r == ioctl(fd, "MEDIA_IOC_G_TOPOLOGY",
                   IF IsOk(k) THEN 0 ELSE -1, IF IsOk(k) THEN 0 ELSE k.err)
    IN  IF IsErr(r) THEN r
        ELSE LET e == DecodeEntities(info_version, k.val.buf["entities"])
                 i == DecodeInterfaces(k.val.buf["interfaces"])
                 p == DecodePads(info_version, k.val.buf["pads"])
                 l == DecodeLinks(k.val.buf["links"])
             IN  IF IsPanic(e) THEN e
                 ELSE IF IsPanic(i) THEN i
                 ELSE IF IsPanic(p) THEN p
                 ELSE IF IsPanic(l) THEN l
                 ELSE Ok(MediaTopology_new(None, k.val.topology_version,
                            then_some(sel["entities"], e.val),
                            then_some(sel["interfaces"], i.val),
                            then_some(sel["pads"], p.val),
                            then_some(sel["links"], l.val)))

\* the second ioctl!, assert_eq! on the version and the decoding, given the
\* kernel's outcome k of the second call
Builder_second(sel, info_version, fd, version, k) ==
    LET r == ioctl(fd, "MEDIA_IOC_G_TOPOLOGY",
                   IF IsOk(k) THEN 0 ELSE -1, IF IsOk(k) THEN 0 ELSE k.err)
    IN  IF IsErr(r) THEN r
        ELSE IF version # k.val.topology_version
        THEN Panic([kind |-> "assert_eq", left |-> version,
                    right |-> k.val.topology_version])
        ELSE LET e == DecodeEntities(info_version, k.val.buf["entities"])
                 i == DecodeInterfaces(k.val.buf["interfaces"])
                 p == DecodePads(info_version, k.val.buf["pads"])
                 l == DecodeLinks(k.val.buf["links"])
             IN  IF IsPanic(e) THEN e
                 ELSE IF IsPanic(i) THEN i
                 ELSE IF IsPanic(p) THEN p
                 ELSE IF IsPanic(l) THEN l
                 ELSE Ok(MediaTopology_new(None, k.val.topology_version,
                            then_some(sel["entities"], e.val),
                            then_some(sel["interfaces"], i.val),
                            then_some(sel["pads"], p.val),
                            then_some(sel["links"], l.val)))

---------------------------------------------------------------------------
(* media_topology.rs: MediaTopology::from_fd                               *)

Topology_first(fd, k) ==
    LET r == ioctl(fd, "MEDIA_IOC_G_TOPOLOGY",
                   IF IsOk(k) THEN 0 ELSE -1, IF IsOk(k) THEN 0 ELSE k.err)
    IN  IF IsErr(r) THEN r ELSE Ok(k.val)

Topology_buffers(num) == [k \in Kinds |-> zeros_vec(k, num[k])]

Topology_second(info_version, fd, version, k) ==
    LET r == ioctl(fd, "MEDIA_IOC_G_TOPOLOGY",
                   IF IsOk(k) THEN 0 ELSE -1, IF IsOk(k) THEN 0 ELSE k.err)
    IN  IF IsErr(r) THEN r
        ELSE IF version # k.val.topology_version
        THEN Panic([kind |-> "assert_eq", left |-> version,
                    right |-> k.val.topology_version])
        ELSE LET e == DecodeEntities(info_version, k.val.buf["entities"])
                 i == DecodeInterfaces(k.val.buf["interfaces"])
                 p == DecodePads(info_version, k.val.buf["pads"])
                 l == DecodeLinks(k.val.buf["links"])
             IN  IF IsPanic(e) THEN e
                 ELSE IF IsPanic(i) THEN i
                 ELSE IF IsPanic(p) THEN p
                 ELSE IF IsPanic(l) THEN l
                 ELSE Ok([path |-> None, version |-> k.val.topology_version,
                          entities |-> e.val, interfaces |-> i.val,
                          pads |-> p.val, links |-> l.val])

---------------------------------------------------------------------------
(* The builds as steps: each control call is one step, and the kernel's    *)
(* graph may change between the two calls of a build.                      *)

InFlight(run) == run.pc = "sized"

\* MediaTopologyBuilder::new().get_*()...from_fd(info, fd), up to and
\* including the first control call
Builder_from_fd_first ==
    /\ UNCHANGED <<ctlVars, verVars, iterVars, decVars, linkVars>>
    /\ runA.pc = "idle"
    /\ runB.pc = "idle"
    /\ \E sel \in Selections,
          k \in KernelGTopologyOutcomes(dev, NoCounts, NoPtrs, NoBufs) :
          LET r == Builder_first(MediaFd, k)
              q == Query(NoCounts, NoPtrs, NoBufs, IsOk(k))
          IN  runA' = IF IsErr(r)
                      THEN [IdleRun EXCEPT !.pc = "done", !.sel = sel,
                                           !.calls = <<q>>, !.result = r]
                      ELSE [IdleRun EXCEPT !.pc = "sized", !.sel = sel,
                                           !.calls = <<q>>,
                                           !.version = r.val.topology_version,
                                           !.num = r.val.num]
    /\ stable' = TRUE
    /\ UNCHANGED <<dev, mediaVersion, runB>>

\* the rest of from_fd: the buffers, the second control call, the result
Builder_from_fd_second ==
    /\ UNCHANGED <<ctlVars, verVars, iterVars, decVars, linkVars>>
    /\ InFlight(runA)
    /\ \E k \in KernelGTopologyOutcomes(dev, Builder_counts(runA.sel, runA.num),
                                        Builder_ptrs(runA.sel),
                                        Builder_buffers(runA.sel, runA.num)) :
          runA' = [runA EXCEPT
                      !.pc = "done",
                      !.calls = Append(@, Query(Builder_counts(runA.sel, runA.num),
                                                Builder_ptrs(runA.sel),
                                                Builder_buffers(runA.sel, runA.num),
                                                IsOk(k))),
                      !.version2 = IF IsOk(k) THEN Some(k.val.topology_version) ELSE None,
                      !.graph2 = IF IsOk(k) THEN GraphNow(dev) ELSE NoBufs,
                      !.buf = IF IsOk(k) THEN k.val.buf ELSE NoBufs,
                      !.result = Builder_second(runA.sel, mediaVersion, MediaFd,
                                                runA.version, k)]
    /\ UNCHANGED <<dev, mediaVersion, runB, stable>>

\* MediaTopology::from_fd(info, fd), up to and including the first control
\* call: on its own, or after a builder with every kind selected
Topology_from_fd_first ==
    /\ UNCHANGED <<ctlVars, verVars, iterVars, decVars, linkVars>>
    /\ runB.pc = "idle"
    /\ ~InFlight(runA)
    /\ runA.pc = "done" => runA.sel = AllKinds
    /\ \E k \in KernelGTopologyOutcomes(dev, NoCounts, NoPtrs, NoBufs) :
          LET r == Topology_first(MediaFd, k)
              q == Query(NoCounts, NoPtrs, NoBufs, IsOk(k))
          IN  runB' = IF IsErr(r)
                      THEN [IdleRun EXCEPT !.pc = "done", !.sel = AllKinds,
                                           !.calls = <<q>>, !.result = r]
                      ELSE [IdleRun EXCEPT !.pc = "sized", !.sel = AllKinds,
                                           !.calls = <<q>>,
                                           !.version = r.val.topology_version,
                                           !.num = r.val.num]
    /\ UNCHANGED <<dev, mediaVersion, runA, stable>>

Topology_from_fd_second ==
    /\ UNCHANGED <<ctlVars, verVars, iterVars, decVars, linkVars>>
    /\ InFlight(runB)
    /\ \E k \in KernelGTopologyOutcomes(dev, runB.num, AllKinds,
                                        Topology_buffers(runB.num)) :
          runB' = [runB EXCEPT
                      !.pc = "done",
                      !.calls = Append(@, Query(runB.num, AllKinds,
                                                Topology_buffers(runB.num), IsOk(k))),
                      !.version2 = IF IsOk(k) THEN Some(k.val.topology_version) ELSE None,
                      !.graph2 = IF IsOk(k) THEN GraphNow(dev) ELSE NoBufs,
                      !.buf = IF IsOk(k) THEN k.val.buf ELSE NoBufs,
                      !.result = Topology_second(mediaVersion, MediaFd,
                                                 runB.version, k)]
    /\ UNCHANGED <<dev, mediaVersion, runA, stable>>

\* kernel: a driver registers or unregisters an object; every change of the
\* graph increments topology_version.  Only the changes that a build can
\* observe are steps: between its two calls, or between the two builds (a
\* change before the first call leads to a graph the initial states draw).
GraphChanges ==
    /\ UNCHANGED <<ctlVars, verVars, iterVars, decVars, linkVars>>
    /\ dev.version <= MaxMutations
    /\ \/ InFlight(runA)
       \/ InFlight(runB)
       \/ runA.pc = "done" /\ runA.sel = AllKinds /\ runB.pc = "idle"
    /\ \E g \in Graphs :
          /\ \E k \in Kinds :
                /\ \A j \in Kinds \ {k} : g[j] = dev[j]
                /\ \/ Len(g[k]) = Len(dev[k]) + 1
                   \/ Len(g[k]) + 1 = Len(dev[k])
                /\ \/ \A i \in 1..Len(dev[k]) : \E j \in 1..Len(g[k]) : g[k][j] = dev[k][i]
                   \/ \A i \in 1..Len(g[k]) : \E j \in 1..Len(dev[k]) : dev[k][j] = g[k][i]
          /\ dev' = Device(g, dev.version + 1)
    /\ stable' = FALSE
    /\ UNCHANGED <<mediaVersion, runA, runB>>

TopoNext ==
    \/ Builder_from_fd_first
    \/ Builder_from_fd_second
    \/ Topology_from_fd_first
    \/ Topology_from_fd_second
    \/ GraphChanges

---------------------------------------------------------------------------
(* media_link_desc.rs, media_link_enum.rs: MediaLinkDesc and               *)
(* MediaLinksEnum, with the kernel's MEDIA_IOC_ENUM_LINKS and              *)
(* MEDIA_IOC_SETUP_LINK.                                                   *)

\* impl From<media_link_desc> for MediaLinkDesc
MediaLinkDesc_from(desc) ==
    LET link_type == BitAnd(desc.flags, MEDIA_LNK_FL_LINK_TYPE)
        source == MediaPadDesc_from(desc.source)
        sink == MediaPadDesc_from(desc.sink)
        flags == MediaLinkFlags_try_from(desc.flags)
    IN  IF ~(link_type = MEDIA_LNK_FL_DATA_LINK \/ link_type = MEDIA_LNK_FL_ANCILLARY_LINK)
        THEN Panic([kind |-> "assert", from |-> desc.flags])
        ELSE IF IsPanic(source) THEN source
        ELSE IF IsPanic(sink) THEN sink
        ELSE IF IsErr(flags) THEN Panic(flags.err)
        ELSE Ok([source |-> source.val, sink |-> sink.val, flags |-> flags.val])

\* impl From<MediaLinkDesc> for media_link_desc
MediaLinkDesc_into_raw(desc) ==
    [source |-> MediaPadDesc_into_raw(desc.source),
     sink |-> MediaPadDesc_into_raw(desc.sink),
     flags |-> desc.flags]

\* std::mem::zeroed() of the raw records
ZeroedPadDesc  == [entity |-> EntityId(FALSE, 0), index |-> 0, flags |-> {}]
ZeroedLinkDesc == [source |-> ZeroedPadDesc, sink |-> ZeroedPadDesc, flags |-> {}]

\* media_link_enum.rs: zeros_vec(num)
links_zeros_vec(num, zero) == [i \in 1..num |-> zero]

\* the pads and the outbound links the modelled entity (id 1) may have, in
\* the order the kernel lists them
LinkPadPool ==
    << [entity |-> EntityId(FALSE, 1), index |-> 0, flags |-> MEDIA_PAD_FL_SINK],
       [entity |-> EntityId(FALSE, 1), index |-> 1, flags |-> MEDIA_PAD_FL_SOURCE] >>

LinkPool ==
    << [source |-> LinkPadPool[2],
        sink |-> [entity |-> EntityId(FALSE, 2), index |-> 0, flags |-> MEDIA_PAD_FL_SINK],
        flags |-> MEDIA_LNK_FL_ENABLED],
       [source |-> LinkPadPool[2],
        sink |-> [entity |-> EntityId(FALSE, 3), index |-> 0, flags |-> MEDIA_PAD_FL_SINK],
        flags |-> {}] >>

\* kernel: the entity's function and flags, its pads and links, and whether
\* its control calls may fail for a reason other than a missing entity
LinkDevice(type_, flags, npads, nlinks, flaky) ==
    [type_ |-> type_, flags |-> flags,
     pads |-> SubSeq(LinkPadPool, 1, npads),
     links |-> SubSeq(LinkPool, 1, nlinks),
     flaky |-> flaky]

\* the pad and link counts an entity may have: the links of the pool start
\* at its second pad
LinkCounts ==
    {c \in (0..Len(LinkPadPool)) \X (0..Len(LinkPool)) :
        c[2] > 0 => c[1] = Len(LinkPadPool)}

LinkDevices ==
    {LinkDevice(MEDIA_ENT_F_IO_V4L, f, c[1], c[2], fl) :
        f \in {0, MEDIA_ENT_FL_DEFAULT}, c \in LinkCounts, fl \in BOOLEAN}

\* kernel: the device as MEDIA_IOC_ENUM_ENTITIES sees it
EntDevOf(d) ==
    [ents |-> (1 :> [id |-> EntityId(FALSE, 1), type_ |-> d.type_, flags |-> d.flags,
                     pads |-> Len(d.pads), links |-> Len(d.links)]),
     flaky |-> d.flaky]

\* kernel, MEDIA_IOC_ENUM_LINKS with buffers of np pads and nl links: the
\* entity is looked up as in MEDIA_IOC_ENUM_ENTITIES; all of its pads and
\* links are written from the start of the buffers, whatever room the caller
\* left.  Records not written stay zeroed; writing more records than the
\* buffer holds runs past the allocation, with an outcome nobody defines
\* (the call returns and the buffer holds its first records, or the process
\* dies).
KernelEnumLinks(d, id, np, nl) ==
    LET e == KernelFindEntity(EntDevOf(d), id)
        fill(recs, n, zero) == [i \in 1..n |-> IF i <= Len(recs) THEN recs[i] ELSE zero]
    IN  IF IsErr(e) THEN {e}
        ELSE {Ok([pads |-> fill(d.pads, np, ZeroedPadDesc),
                  links |-> fill(d.links, nl, ZeroedLinkDesc)])}
             \cup (IF Len(d.pads) > np \/ Len(d.links) > nl
                   THEN {Panic([kind |-> "heap overflow"])} ELSE {})
             \cup (IF d.flaky THEN {Err(EBUSY), Err(ENOTTY)} ELSE {})

\* MediaEntityDesc::from_fd, given the kernel's outcome k
MediaEntityDesc_from_fd(fd, k) ==
    LET r == ioctl(fd, "MEDIA_IOC_ENUM_ENTITIES",
                   IF IsOk(k) THEN 0 ELSE -1, IF IsOk(k) THEN 0 ELSE k.err)
    IN  IF IsErr(r) THEN r ELSE MediaEntityDesc_from(k.val)

\* MediaLinksEnum::new, lines 42-46: every record of both buffers is decoded
MediaLinksEnum_decode(entity, pads, links) ==
    LET ps == Collect([i \in 1..Len(pads) |-> MediaPadDesc_from(pads[i])], <<>>)
        ls == Collect([i \in 1..Len(links) |-> MediaLinkDesc_from(links[i])], <<>>)
    IN  IF IsPanic(ps) THEN ps
        ELSE IF IsPanic(ls) THEN ls
        ELSE Ok([entity |-> entity, pads |-> ps.val, links |-> ls.val])

\* variant: the buffers are one record longer than the descriptor says
MediaLinksEnum_buffers_one_more(desc) ==
    [pads |-> links_zeros_vec(desc.pads + 1, ZeroedPadDesc),
     links |-> links_zeros_vec(desc.links + 1, ZeroedLinkDesc)]

\* MediaLinksEnum::new, lines 35-39: the buffers handed to the kernel
MediaLinksEnum_buffers(desc) ==
    [pads |-> links_zeros_vec(desc.pads, ZeroedPadDesc),
     links |-> links_zeros_vec(desc.links, ZeroedLinkDesc)]

\* MediaLinksEnum::new after the descriptor, given the kernel's outcome k of
\* MEDIA_IOC_ENUM_LINKS
MediaLinksEnum_new_result(fd, entity, k) ==
    LET r == ioctl(fd, "MEDIA_IOC_ENUM_LINKS",
                   IF IsOk(k) THEN 0 ELSE -1, IF IsOk(k) THEN 0 ELSE k.err)
    IN  IF IsPanic(k) THEN k
        ELSE IF IsErr(r) THEN r
        ELSE MediaLinksEnum_decode(entity, k.val.pads, k.val.links)

\* the entity ids a caller may ask for: the entity, one that does not exist,
\* and 0 with MEDIA_ENT_ID_FLAG_NEXT
LinkEntityIds == {EntityId(FALSE, 1), EntityId(FALSE, 2), EntityId(TRUE, 0)}

\* a control call of MediaLinksEnum::new: the operation, the entity id
\* passed, the lengths of the buffers attached and whether the kernel
\* accepted it
LinkQuery(api, id, npads, nlinks, ok) ==
    [api |-> api, id |-> id, npads |-> npads, nlinks |-> nlinks, ok |-> ok]

\* a MediaLinksEnum::new call: its position, the id asked for, the
\* descriptor fetched, what the kernel wrote into the buffers (buf), the
\* control calls issued and the Result
IdleEnum ==
    [pc |-> "idle", entity |-> EntityId(FALSE, 0), desc |-> None,
     buf |-> None, calls |-> <<>>, result |-> NoResult]

\* MediaLinksEnum::new, line 31: MediaEntityDesc::from_fd(fd, entity)?
LinksEnum_fetch ==
    /\ UNCHANGED <<ctlVars, verVars, iterVars, topoVars, decVars>>
    /\ lenum.pc = "idle"
    /\ \E entity \in LinkEntityIds :
       \E k \in KernelEnumEntities(EntDevOf(lnkDev), entity) :
          LET d == MediaEntityDesc_from_fd(MediaFd, k)
          IN  lenum' = [lenum EXCEPT
                          !.pc = IF IsOk(d) THEN "fetched" ELSE "done",
                          !.entity = entity,
                          !.desc = IF IsOk(d) THEN Some(d.val) ELSE None,
                          !.calls = <<LinkQuery("MEDIA_IOC_ENUM_ENTITIES", entity,
                                                0, 0, IsOk(k))>>,
                          !.result = IF IsOk(d) THEN NoResult ELSE d]
    /\ UNCHANGED <<lnkDev, held, lchanges>>

\* MediaLinksEnum::new, lines 32-47: the buffers, MEDIA_IOC_ENUM_LINKS and
\* the decoding of what the kernel wrote
LinksEnum_enumerate ==
    /\ UNCHANGED <<ctlVars, verVars, iterVars, topoVars, decVars>>
    /\ lenum.pc = "fetched"
    /\ LET b == MediaLinksEnum_buffers(lenum.desc.val)
       IN  \E k \in KernelEnumLinks(lnkDev, lenum.entity, Len(b.pads), Len(b.links)) :
              lenum' = [lenum EXCEPT
                          !.pc = "done",
                          !.buf = IF IsOk(k) THEN Some(k.val) ELSE None,
                          !.calls = Append(@, LinkQuery("MEDIA_IOC_ENUM_LINKS", lenum.entity,
                                                        Len(b.pads), Len(b.links), IsOk(k))),
                          !.result = MediaLinksEnum_new_result(MediaFd, lenum.entity, k)]
    /\ UNCHANGED <<lnkDev, held, lchanges>>

\* the caller drops the MediaLinksEnum (or the error) and may call new again
LinksEnum_drop ==
    /\ UNCHANGED <<ctlVars, verVars, iterVars, topoVars, decVars>>
    /\ lenum.pc = "done"
    /\ lenum' = IdleEnum
    /\ UNCHANGED <<lnkDev, held, lchanges>>

\* kernel: the entity gains or loses pads or links, between the two control
\* calls of MediaLinksEnum::new
LinkChanges ==
    /\ UNCHANGED <<ctlVars, verVars, iterVars, topoVars, decVars>>
    /\ lenum.pc = "fetched"
    /\ lchanges < MaxMutations
    /\ \E c \in LinkCounts :
          /\ c # <<Len(lnkDev.pads), Len(lnkDev.links)>>
          /\ lnkDev' = LinkDevice(lnkDev.type_, lnkDev.flags, c[1], c[2], lnkDev.flaky)
    /\ lchanges' = lchanges + 1
    /\ UNCHANGED <<lenum, held>>

\* MediaLinkDesc::setup, lines 47-48: the record handed to the kernel
MediaLinkDesc_setup_raw(self, flags) ==
    [MediaLinkDesc_into_raw(self) EXCEPT !.flags = flags]

\* kernel, MEDIA_IOC_SETUP_LINK: the link is configured and the record is
\* copied back as it was passed, or the call fails (no such link, or the
\* link cannot be changed now)
KernelSetupLink(raw) == {Ok(raw), Err(EINVAL), Err(EBUSY)}

\* variant: the flags asked for are stored before the control call
MediaLinkDesc_setup_eager(self, fd, flags, k) ==
    LET r == ioctl(fd, "MEDIA_IOC_SETUP_LINK",
                   IF IsOk(k) THEN 0 ELSE -1, IF IsOk(k) THEN 0 ELSE k.err)
    IN  IF IsErr(r) THEN [self |-> [self EXCEPT !.flags = flags], result |-> r]
        ELSE [self |-> MediaLinkDesc_from(k.val).val, result |-> Ok(NoVal)]

\* MediaLinkDesc::setup, given the kernel's outcome k: the new *self and the
\* Result
MediaLinkDesc_setup(self, fd, flags, k) ==
    LET r == ioctl(fd, "MEDIA_IOC_SETUP_LINK",
                   IF IsOk(k) THEN 0 ELSE -1, IF IsOk(k) THEN 0 ELSE k.err)
        d == MediaLinkDesc_from(k.val)
    IN  IF IsErr(r) THEN [self |-> self, result |-> r]
        ELSE IF IsPanic(d) THEN [self |-> self, result |-> d]
        ELSE [self |-> d.val, result |-> Ok(NoVal)]

\* the values of MediaLinkFlags: any of Enabled, Immutable, Dynamic
SetupFlags == SUBSET BitOr(MEDIA_LNK_FL_ENABLED,
                           BitOr(MEDIA_LNK_FL_IMMUTABLE, MEDIA_LNK_FL_DYNAMIC))

\* the MediaLinkDesc values the caller may hold: from MediaLinksEnum, or
\* built with MediaLinkDesc::new (any usize as an index)
HeldDescs ==
    {[source |-> [entity |-> EntityId(FALSE, 1), index |-> i, flags |-> "Source"],
      sink |-> [entity |-> EntityId(FALSE, 2), index |-> 0, flags |-> sf],
      flags |-> f] :
        i \in {1, U16 + 1}, sf \in {"Sink", "SinkMustConnect"},
        f \in {{}, MEDIA_LNK_FL_ENABLED}}

\* a MediaLinkDesc and its last setup call: the value before it, the flags
\* asked for, the kernel's outcome and the Result
Held(desc, pre, flags, back, result) ==
    [desc |-> desc, pre |-> pre, flags |-> flags, back |-> back, result |-> result]

\* MediaLinkDesc::setup
LinkDesc_setup ==
    /\ UNCHANGED <<ctlVars, verVars, iterVars, topoVars, decVars>>
    /\ \E flags \in SetupFlags :
       \E k \in KernelSetupLink(MediaLinkDesc_setup_raw(held.desc, flags)) :
          LET out == MediaLinkDesc_setup(held.desc, MediaFd, flags, k)
          IN  held' = Held(out.self, Some(held.desc), flags, k, out.result)
    /\ UNCHANGED <<lnkDev, lenum, lchanges>>

LinksEnumNext ==
    \/ LinksEnum_fetch
    \/ LinksEnum_enumerate
    \/ LinksEnum_drop
    \/ LinkChanges

LinkSetupNext ==
    \/ LinkDesc_setup

---------------------------------------------------------------------------
(* The specifications: one per component, the others at rest.              *)

ReqState0 == [r \in RequestFds |-> "Unallocated"]
LastCall0 == Call("none", MediaFd, NoVal, 0, Ok(NoVal))
EntDev0   == [ents |-> <<>>, flaky |-> FALSE]
LnkDev0   == LinkDevice(MEDIA_ENT_F_IO_V4L, MEDIA_ENT_FL_DEFAULT, 0, 0, FALSE)
Held0     == Held(CHOOSE d \in HeldDescs : d.source.index = 1 /\ d.flags = {}
                                           /\ d.sink.flags = "Sink",
                  None, {}, NoResult, NoResult)
Dev0      == Device([entities |-> <<>>, interfaces |-> <<>>, pads |-> <<>>,
                     links |-> <<>>], 1)

InitCtl ==
    /\ reqState = ReqState0 /\ lastCall = LastCall0
    /\ ver = Version_new(0, 0, 0) /\ packed = None /\ decoded = None
    /\ entDev = EntDev0 /\ iter = NoIter /\ yielded = <<>>
    /\ dev = Dev0 /\ mediaVersion = Version_new(4, 19, 0)
    /\ runA = IdleRun /\ runB = IdleRun /\ stable = TRUE
    /\ dec = NoDec
    /\ lnkDev = LnkDev0 /\ lenum = IdleEnum /\ held = Held0 /\ lchanges = 0

InitVersion ==
    /\ reqState = ReqState0 /\ lastCall = LastCall0
    /\ ver \in Versions /\ packed = None /\ decoded = None
    /\ entDev = EntDev0 /\ iter = NoIter /\ yielded = <<>>
    /\ dev = Dev0 /\ mediaVersion = Version_new(4, 19, 0)
    /\ runA = IdleRun /\ runB = IdleRun /\ stable = TRUE
    /\ dec = NoDec
    /\ lnkDev = LnkDev0 /\ lenum = IdleEnum /\ held = Held0 /\ lchanges = 0

InitIter ==
    /\ reqState = ReqState0 /\ lastCall = LastCall0
    /\ ver = Version_new(0, 0, 0) /\ packed = None /\ decoded = None
    /\ entDev \in EntityDevices /\ iter = NoIter /\ yielded = <<>>
    /\ dev = Dev0 /\ mediaVersion = Version_new(4, 19, 0)
    /\ runA = IdleRun /\ runB = IdleRun /\ stable = TRUE
    /\ dec = NoDec
    /\ lnkDev = LnkDev0 /\ lenum = IdleEnum /\ held = Held0 /\ lchanges = 0

InitTopology ==
    /\ reqState = ReqState0 /\ lastCall = LastCall0
    /\ ver = Version_new(0, 0, 0) /\ packed = None /\ decoded = None
    /\ entDev = EntDev0 /\ iter = NoIter /\ yielded = <<>>
    /\ dev \in {Device(g, 1) : g \in Graphs}
    /\ mediaVersion \in {Version_new(4, 18, 0), Version_new(4, 19, 0)}
    /\ runA = IdleRun /\ runB = IdleRun /\ stable = TRUE
    /\ dec = NoDec
    /\ lnkDev = LnkDev0 /\ lenum = IdleEnum /\ held = Held0 /\ lchanges = 0

InitDecode ==
    /\ reqState = ReqState0 /\ lastCall = LastCall0
    /\ ver = Version_new(0, 0, 0) /\ packed = None /\ decoded = None
    /\ entDev = EntDev0 /\ iter = NoIter /\ yielded = <<>>
    /\ dev = Dev0 /\ mediaVersion = Version_new(4, 19, 0)
    /\ runA = IdleRun /\ runB = IdleRun /\ stable = TRUE
    /\ dec = NoDec
    /\ lnkDev = LnkDev0 /\ lenum = IdleEnum /\ held = Held0 /\ lchanges = 0

InitLinksEnum ==
    /\ reqState = ReqState0 /\ lastCall = LastCall0
    /\ ver = Version_new(0, 0, 0) /\ packed = None /\ decoded = None
    /\ entDev = EntDev0 /\ iter = NoIter /\ yielded = <<>>
    /\ dev = Dev0 /\ mediaVersion = Version_new(4, 19, 0)
    /\ runA = IdleRun /\ runB = IdleRun /\ stable = TRUE
    /\ dec = NoDec
    /\ lnkDev \in LinkDevices /\ lenum = IdleEnum /\ held = Held0 /\ lchanges = 0

InitLinkSetup ==
    /\ reqState = ReqState0 /\ lastCall = LastCall0
    /\ ver = Version_new(0, 0, 0) /\ packed = None /\ decoded = None
    /\ entDev = EntDev0 /\ iter = NoIter /\ yielded = <<>>
    /\ dev = Dev0 /\ mediaVersion = Version_new(4, 19, 0)
    /\ runA = IdleRun /\ runB = IdleRun /\ stable = TRUE
    /\ dec = NoDec
    /\ lnkDev = LnkDev0 /\ lenum = IdleEnum /\ lchanges = 0
    /\ held \in {Held(d, None, {}, NoResult, NoResult) : d \in HeldDescs}

SpecCtl      == InitCtl /\ [][CtlNext]_vars
SpecVersion  == InitVersion /\ [][VerNext]_vars
SpecIter     == InitIter /\ [][IterNext]_vars
SpecTopology == InitTopology /\ [][TopoNext]_vars
SpecDecode   == InitDecode /\ [][DecodeNext]_vars
SpecPadDesc  == InitDecode /\ [][PadDescNext]_vars
SpecNames    == InitDecode /\ [][NamesNext]_vars
SpecLinksEnum  == InitLinksEnum /\ [][LinksEnumNext]_vars
SpecLinkSetup  == InitLinkSetup /\ [][LinkSetupNext]_vars

---------------------------------------------------------------------------
(* Properties of the ioctl! layer and of Request, under SpecCtl.           *)

\* C3: when the kernel fails MEDIA_REQUEST_IOC_QUEUE with EBUSY, Request::queue
\* returns RequestIsAlreadyQueued; when it fails MEDIA_IOC_G_TOPOLOGY with
\* EBUSY, the error returned is DeviceIsBusy.
C3_EbusyByOperation ==
    /\ (lastCall.op = "queue" /\ lastCall.errno = EBUSY) =>
          /\ IsErr(lastCall.result)
          /\ lastCall.result.err.kind = "RequestIsAlreadyQueued"
    /\ (lastCall.op = "MEDIA_IOC_G_TOPOLOGY" /\ lastCall.errno = EBUSY) =>
          /\ IsErr(lastCall.result)
          /\ lastCall.result.err.kind = "DeviceIsBusy"

C10_InitOnlyBusy ==
    lastCall.op = "init" =>
        /\ lastCall.pre \in {"Allocated", "Completed"} => IsOk(lastCall.result)
        /\ lastCall.pre = "Queued" => IsErr(lastCall.result)
        /\ IsErr(lastCall.result) => lastCall.result.err.kind = "DeviceIsBusy"

\* C10 happens: init was refused on a queued request, which is still queued.
C10_Witness ==
    /\ lastCall.op = "init"
    /\ lastCall.pre = "Queued"
    /\ IsErr(lastCall.result)
    /\ reqState[lastCall.fd] = "Queued"

\* C11: Request::new fails only with the generic kind Error::Ioctl, whatever
\* errno MEDIA_IOC_REQUEST_ALLOC gives: never DeviceIsBusy, NotSupportedIoctl
\* or a kind of the request.
C11_AllocOnlyGeneric ==
    (lastCall.op = "new" /\ IsErr(lastCall.result)) =>
        lastCall.result.err.kind = "Ioctl"

\* C12: a failed Request::queue is classified by errno: ENOENT gives
\* RequestNotContainBuffers, ENOMEM OutOfMemory, EINVAL RequestHasInvalidData,
\* EIO HardwareBadState; the error carries the request descriptor, the raw
\* errno and the code of the queue operation.
C12_QueueErrnoTable ==
    (lastCall.op = "queue" /\ lastCall.errno \in {ENOENT, ENOMEM, EINVAL, EIO}) =>
        /\ IsErr(lastCall.result)
        /\ lastCall.result.err.kind =
              CASE lastCall.errno = ENOENT -> "RequestNotContainBuffers"
                [] lastCall.errno = ENOMEM -> "OutOfMemory"
                [] lastCall.errno = EINVAL -> "RequestHasInvalidData"
                [] lastCall.errno = EIO    -> "HardwareBadState"
        /\ lastCall.result.err.fd = lastCall.fd
        /\ lastCall.fd \in RequestFds
        /\ lastCall.result.err.code = lastCall.errno
        /\ lastCall.result.err.api = "MEDIA_REQUEST_IOC_QUEUE"

\* C12 happens: the second request was queued and the hardware refused it.
C12_Witness ==
    /\ lastCall.op = "queue"
    /\ lastCall.fd = 5
    /\ lastCall.errno = EIO
    /\ IsErr(lastCall.result)
    /\ lastCall.result.err.kind = "HardwareBadState"

\* C13: in every sequence of allocate, init and queue calls and completions,
\* the state of a request changes only from Allocated or Completed to Queued
\* by a queue that returned Ok, from Queued to Completed by a completion, and
\* from Completed to Allocated by an init that returned Ok (and from
\* Unallocated to Allocated by an allocation); a queue or init that returned
\* an error leaves it unchanged, one that returned Ok leaves the request
\* Queued, respectively Allocated, and no call moves a request out of Queued.
C13_Lifecycle ==
    [][lastCall'.op # "drop" =>
        \A r \in RequestFds :
            LET a == reqState[r]
                b == reqState'[r]
                mine == lastCall'.fd = r
            IN  /\ a # b =>
                    \/ /\ a \in {"Allocated", "Completed"} /\ b = "Queued"
                       /\ lastCall'.op = "queue" /\ mine /\ IsOk(lastCall'.result)
                    \/ /\ a = "Queued" /\ b = "Completed"
                       /\ lastCall'.op = "complete" /\ mine
                    \/ /\ a = "Completed" /\ b = "Allocated"
                       /\ lastCall'.op = "init" /\ mine /\ IsOk(lastCall'.result)
                    \/ /\ a = "Unallocated" /\ b = "Allocated"
                       /\ lastCall'.op = "new" /\ IsOk(lastCall'.result)
                /\ (lastCall'.op \in {"queue", "init"} /\ mine
                        /\ IsErr(lastCall'.result)) => b = a
                /\ (lastCall'.op = "queue" /\ mine /\ IsOk(lastCall'.result)) =>
                        b = "Queued"
                /\ (lastCall'.op = "init" /\ mine /\ IsOk(lastCall'.result)) =>
                        b = "Allocated"]_vars

\* C13 happens: a request went through the whole cycle and its reinit
\* returned Ok, while the other request is still queued after a refused queue.
C13_Witness ==
    /\ lastCall.op = "init"
    /\ lastCall.pre = "Completed"
    /\ IsOk(lastCall.result)
    /\ reqState[lastCall.fd] = "Allocated"
    /\ \E r \in RequestFds : reqState[r] = "Queued"

---------------------------------------------------------------------------
(* Properties of Version, under SpecVersion.                               *)

\* C7: for every Version v with 8-bit components, Version::from of the u32
\* that v.into() gives is v.
C7_VersionRoundTrip ==
    decoded.some => decoded.val = ver

\* C7 happens: a version with three different non-zero components, one of
\* them with the top bit set, was packed and unpacked.
C7_Witness ==
    /\ decoded.some
    /\ packed.some
    /\ ver = Version_new(4, 19, 128)

---------------------------------------------------------------------------
(* Properties of MediaEntityIter, under SpecIter.                          *)

\* C5: on a fixed device the ids of the entities next() has yielded are
\* strictly increasing, and there are at most as many as the device has
\* entities.
C5_StrictlyIncreasing ==
    ~entDev.flaky =>
        /\ \A i \in 1..Len(yielded), j \in 1..Len(yielded) :
              i < j => yielded[i].num < yielded[j].num
        /\ Len(yielded) <= Cardinality(DOMAIN entDev.ents)

\* C9: an iterator constructed with start id s (a plain id) that has run to
\* its end has yielded exactly the entities with id >= s, in ascending order.
C9_AllFromStart ==
    (iter.pc = "live" /\ iter.last = "None" /\ ~iter.start.next /\ ~entDev.flaky) =>
        LET want == {i \in DOMAIN entDev.ents : i >= iter.start.num}
        IN  /\ {yielded[i].num : i \in 1..Len(yielded)} = want
            /\ Len(yielded) = Cardinality(want)
            /\ \A i \in 1..Len(yielded), j \in 1..Len(yielded) :
                  i < j => yielded[i].num < yielded[j].num

\* C24: a lookup that fails because there is no further entity ends the
\* sequence (the cursor is left without a descriptor, nothing unwinds), and
\* from the next() that returned None on, every next() returns None, issues
\* no lookup and yields nothing.
C24_ForwardOnly ==
    [][/\ (iter'.queries # iter.queries /\ iter'.errno = EINVAL) =>
              (iter'.pc = "live" /\ ~iter'.desc.some)
       /\ (iter.pc = "live" /\ iter.last = "None") =>
              /\ iter'.pc = "live"
              /\ iter'.last = "None"
              /\ ~iter'.desc.some
              /\ iter'.queries = iter.queries
              /\ iter'.asked = iter.asked
              /\ yielded' = yielded]_vars

\* C24 happens: the cursor yielded two entities, the lookup after them found
\* no entity, and next() has returned None.
C24_Witness ==
    /\ iter.pc = "live"
    /\ iter.last = "None"
    /\ iter.errno = EINVAL
    /\ Len(yielded) = 2

\* C25: every lookup the cursor issues passes an id with
\* MEDIA_ENT_ID_FLAG_NEXT, constructing the cursor issues none, and a cursor
\* that yielded k entities and then None has issued k + 1 lookups.
C25_OneFlaggedQueryPerAdvance ==
    /\ \A i \in 1..Len(iter.asked) : iter.asked[i].next
    /\ (iter.pc = "live" /\ iter.last = NoVal) => iter.queries = 0
    /\ (iter.pc = "live" /\ iter.last = "None") =>
          iter.queries = Len(yielded) + 1

\* C28: whatever errno a lookup fails with, at construction or in next(),
\* the cursor is left exactly as after a missing entity: alive, without a
\* descriptor, so that next() returns None; nothing unwinds and no error is
\* stored or returned.
C28_FailureEndsIteration ==
    /\ iter.errno # 0 => (iter.pc = "live" /\ ~iter.desc.some)
    /\ iter.pc = "panic" => iter.errno = 0

\* C28 happens: the device was busy at the lookup after the first entity,
\* and next() has returned None after one entity.
C28_Witness ==
    /\ iter.pc = "live"
    /\ iter.errno = EBUSY
    /\ iter.last = "None"
    /\ Len(yielded) = 1
    /\ Cardinality(DOMAIN entDev.ents) >= 2

---------------------------------------------------------------------------
(* Properties of the topology builds, under SpecTopology.                  *)

\* C1: when the second G_TOPOLOGY call of a build succeeds and reports a
\* version other than the first call's, from_fd returns an error value (the
\* torn read), and no Topology.
C1_TornReadIsError ==
    \A run \in {runA, runB} :
        (/\ run.pc = "done"
         /\ run.version2.some
         /\ run.version2.val # run.version) => IsErr(run.result)

\* C2: a successful build of any selection has None for each kind not
\* selected and Some for each kind selected, and Some of the empty collection
\* for a selected kind of which the device reported 0.
C2_SelectionShapesResult ==
    (runA.pc = "done" /\ IsOk(runA.result)) =>
        \A k \in Kinds :
            /\ runA.result.val[k].some = runA.sel[k]
            /\ (runA.sel[k] /\ runA.num[k] = 0) => runA.result.val[k] = Some(<<>>)
            /\ runA.sel[k] => Len(runA.result.val[k].val) = runA.num[k]

\* C2 happens: a build that selected pads and links only succeeded on a device
\* with an entity, a pad and no link.
C2_Witness ==
    /\ runA.pc = "done"
    /\ IsOk(runA.result)
    /\ runA.sel = [k \in Kinds |-> k \in {"pads", "links"}]
    /\ runA.num["entities"] = 1
    /\ runA.num["pads"] = 1
    /\ runA.num["links"] = 0
    /\ ~runA.result.val["entities"].some
    /\ runA.result.val["links"].some

\* C6: a build that selected links and was handed a link record whose type
\* bits are none of data, interface and ancillary link returns a decode
\* error value that carries the raw flags of such a record.
C6_UnknownLinkTypeIsError ==
    \A run \in {runA, runB} :
        LET unknown == {i \in 1..Len(run.buf["links"]) :
                            BitAnd(run.buf["links"][i].flags, MEDIA_LNK_FL_LINK_TYPE)
                                \notin {MEDIA_LNK_FL_DATA_LINK,
                                        MEDIA_LNK_FL_INTERFACE_LINK,
                                        MEDIA_LNK_FL_ANCILLARY_LINK}}
        IN  (/\ run.pc = "done"
             /\ run.version2.some
             /\ run.version2.val = run.version
             /\ unknown # {}) =>
                /\ IsErr(run.result)
                /\ \E i \in unknown : run.result.err.from = run.buf["links"][i].flags

C16_SnapshotOfOneGeneration ==
    LET want(g, k) ==
            CASE k = "entities"   -> DecodeEntities(mediaVersion, g[k])
              [] k = "interfaces" -> DecodeInterfaces(g[k])
              [] k = "pads"       -> DecodePads(mediaVersion, g[k])
              [] k = "links"      -> DecodeLinks(g[k])
    IN  /\ (runA.pc = "done" /\ IsOk(runA.result)) =>
              /\ runA.version2 = Some(runA.result.val.version)
              /\ \A k \in Kinds :
                    runA.sel[k] =>
                        /\ runA.result.val[k].some
                        /\ want(runA.graph2, k) = Ok(runA.result.val[k].val)
        /\ (runB.pc = "done" /\ IsOk(runB.result)) =>
              /\ runB.version2 = Some(runB.result.val.version)
              /\ \A k \in Kinds :
                    want(runB.graph2, k) = Ok(runB.result.val[k])

\* C16 happens: the graph changed while the builder was between its calls,
\* which ended it without a Topology, and the build after it returned the
\* graph of the second generation.
C16_Witness ==
    /\ IsPanic(runA.result)
    /\ runA.version = 1
    /\ runB.pc = "done"
    /\ IsOk(runB.result)
    /\ runB.result.val.version = 2
    /\ Len(runB.result.val["entities"]) = 1

\* C17: within a build the first query, with null pointers and zero counts,
\* is answered before the second is issued; a build that succeeds has issued
\* exactly two queries, one whose first query failed has returned that error
\* without a second query, and no build issues more than two.
C17_TwoQueriesInOrder ==
    \A run \in {runA, runB} :
        /\ Len(run.calls) <= 2
        /\ run.pc = "idle" => run.calls = <<>>
        /\ run.pc = "sized" => (Len(run.calls) = 1 /\ run.calls[1].ok)
        /\ Len(run.calls) >= 1 =>
              /\ run.calls[1].num = NoCounts
              /\ run.calls[1].ptr = NoPtrs
        /\ Len(run.calls) = 2 => run.calls[1].ok
        /\ (run.pc = "done" /\ IsOk(run.result)) =>
              /\ Len(run.calls) = 2
              /\ run.calls[2].ok
        /\ (Len(run.calls) >= 1 /\ ~run.calls[1].ok) =>
              /\ run.pc = "done"
              /\ IsErr(run.result)

\* C17 happens: a builder that selected pads has succeeded with two queries.
C17_Witness ==
    /\ runA.pc = "done"
    /\ IsOk(runA.result)
    /\ Len(runA.calls) = 2
    /\ runA.sel["pads"]
    /\ runA.num["pads"] = 1

\* C18: in the second query of a build every requested kind is passed a
\* zeroed buffer as long as the count the first query reported, and every
\* kind not requested a null pointer and a count of zero.
C18_BuffersAndCounts ==
    \A run \in {runA, runB} :
        Len(run.calls) = 2 =>
            \A k \in Kinds :
                /\ run.sel[k] =>
                      /\ run.calls[2].ptr[k]
                      /\ run.calls[2].buf[k] = [i \in 1..run.num[k] |-> Zeroed[k]]
                      /\ run.calls[2].num[k] = run.num[k]
                /\ ~run.sel[k] =>
                      /\ ~run.calls[2].ptr[k]
                      /\ run.calls[2].num[k] = 0

\* C19: a build whose populated buffers hold a record that does not decode
\* (entity function, interface type, pad flags, link flags or link type)
\* returns an error as its result.
C19_DecodeFailureIsError ==
    \A run \in {runA, runB} :
        LET b == run.buf
            bad ==
                \/ \E i \in 1..Len(b["entities"]) :
                      IsErr(MediaEntityFunctions_try_from(b["entities"][i].function))
                \/ \E i \in 1..Len(b["interfaces"]) :
                      IsErr(MediaInterfaceType_try_from(b["interfaces"][i].intf_type))
                \/ \E i \in 1..Len(b["pads"]) :
                      IsErr(MediaPadFlags_try_from(b["pads"][i].flags))
                \/ \E i \in 1..Len(b["links"]) :
                      \/ IsErr(MediaLinkFlags_try_from(b["links"][i].flags))
                      \/ IsPanic(MediaLink_from(b["links"][i]))
        IN  (/\ run.pc = "done"
             /\ run.version2.some
             /\ run.version2.val = run.version
             /\ bad) => IsErr(run.result)

---------------------------------------------------------------------------
(* Properties of the conversions, under SpecDecode.                        *)

\* C14: for every media version and raw pad, the MediaPad decoded has index
\* Some(raw index) when MediaPad::has_index holds for the version, and None
\* otherwise.
C14_PadIndexGate ==
    (dec.op = "pad" /\ IsOk(dec.result)) =>
        dec.result.val.index =
            IF MediaPad_has_index(dec.version) THEN Some(dec.raw.index) ELSE None

\* C14 happens: a pad with index 1 was decoded at the threshold version.
C14_Witness ==
    /\ dec.op = "pad"
    /\ IsOk(dec.result)
    /\ dec.version = Version_new(4, 19, 0)
    /\ dec.raw.index = 1
    /\ dec.result.val.index = Some(1)

\* C15: for every media version and raw entity, the MediaEntity decoded has
\* flags present exactly when MediaEntity::has_flags holds for the version,
\* whatever the raw flags are.
C15_EntityFlagsGate ==
    (dec.op = "entity" /\ IsOk(dec.result)) =>
        (dec.result.val.flags.some <=> MediaEntity_has_flags(dec.version))

\* C20: each flag decoder gives its parse error, carrying the raw value, for
\* every raw value that is no recognised combination: a bit no flag defines,
\* or for a pad both of SINK and SOURCE or neither; and the entity decoder
\* does not turn such a value into absent flags.
C20_UnknownFlagsAreErrors ==
    LET padBits  == BitOr(MEDIA_PAD_FL_SINK,
                          BitOr(MEDIA_PAD_FL_SOURCE, MEDIA_PAD_FL_MUST_CONNECT))
        linkBits == BitOr(MEDIA_LNK_FL_ENABLED,
                          BitOr(MEDIA_LNK_FL_IMMUTABLE, MEDIA_LNK_FL_DYNAMIC))
        entBad(v) == v \notin {0, MEDIA_ENT_FL_DEFAULT, MEDIA_ENT_FL_CONNECTOR,
                               MEDIA_ENT_FL_DEFAULT + MEDIA_ENT_FL_CONNECTOR}
    IN  /\ (/\ dec.op = "pad_flags"
            /\ \/ ~(dec.raw \subseteq padBits)
               \/ (BitAnd(dec.raw, MEDIA_PAD_FL_SINK) # {})
                     = (BitAnd(dec.raw, MEDIA_PAD_FL_SOURCE) # {})) =>
               dec.result = Err([kind |-> "PadFlagsParseError", from |-> dec.raw])
        /\ (dec.op = "link_flags"
            /\ ~(BitAnd(dec.raw, BitNot(MEDIA_LNK_FL_LINK_TYPE)) \subseteq linkBits)) =>
               /\ IsErr(dec.result)
               /\ dec.result.err.from = dec.raw
        /\ (dec.op = "entity_flags" /\ entBad(dec.raw)) =>
               dec.result = Err([kind |-> "EntityFlagsParseError", from |-> dec.raw])
        /\ (dec.op = "entity" /\ entBad(dec.raw.flags) /\ IsOk(dec.result)) =>
               dec.result.val.flags.some

\* C21: link flags that decode hold none of the bits of the link type and
\* are the raw word with those bits cleared; the kind of a decoded link is
\* the one the bits of the link type name.
C21_FlagsExcludeLinkType ==
    /\ (dec.op = "link_flags" /\ IsOk(dec.result)) =>
          /\ BitAnd(dec.result.val, MEDIA_LNK_FL_LINK_TYPE) = {}
          /\ dec.result.val = BitAnd(dec.raw, BitNot(MEDIA_LNK_FL_LINK_TYPE))
    /\ (dec.op = "link" /\ IsOk(dec.result)) =>
          LET t == BitAnd(dec.raw.flags, MEDIA_LNK_FL_LINK_TYPE)
          IN  /\ BitAnd(dec.result.val.flags, MEDIA_LNK_FL_LINK_TYPE) = {}
              /\ dec.result.val.flags
                    = BitAnd(dec.raw.flags, BitNot(MEDIA_LNK_FL_LINK_TYPE))
              /\ dec.result.val.type.kind = "DataLink"
                    <=> t = MEDIA_LNK_FL_DATA_LINK
              /\ dec.result.val.type.kind = "InterfaceLink"
                    <=> t = MEDIA_LNK_FL_INTERFACE_LINK
              /\ dec.result.val.type.kind = "AncillaryLink"
                    <=> t = MEDIA_LNK_FL_ANCILLARY_LINK

\* C21 happens: an enabled, immutable interface link has been decoded.
C21_Witness ==
    /\ dec.op = "link"
    /\ IsOk(dec.result)
    /\ dec.raw.flags = {0, 1, 28}
    /\ dec.result.val.flags = {0, 1}
    /\ dec.result.val.type.kind = "InterfaceLink"

---------------------------------------------------------------------------
(* Properties of MediaPadDesc, under SpecPadDesc.                          *)

\* C30: a MediaPadDesc turned into the raw record and back is the same
\* value exactly when its index is below 2^16; the raw record holds the
\* index modulo 2^16, and the entity id and the flags come back unchanged
\* whatever the index.
C30_PadDescRoundTrip ==
    dec.op = "pad_desc_round_trip" =>
        LET d == dec.raw.desc
            r == dec.raw.raw
        IN  /\ IsOk(dec.result)
            /\ r.index = d.index % U16
            /\ r.entity = d.entity
            /\ dec.result.val.entity = d.entity
            /\ dec.result.val.flags = d.flags
            /\ dec.result.val.index = d.index % U16
            /\ (dec.result.val = d) <=> (d.index < U16)

\* C30 happens: a source pad that must connect, of index 2^16 + 1, came back
\* with index 1.
C30_Witness ==
    /\ dec.op = "pad_desc_round_trip"
    /\ dec.raw.desc.index = U16 + 1
    /\ dec.raw.desc.flags = "SourceMustConnect"
    /\ dec.raw.desc.entity = EntityId(TRUE, 2)
    /\ IsOk(dec.result)
    /\ dec.result.val.index = 1

---------------------------------------------------------------------------
(* Properties of the names, under SpecNames.                               *)

\* C27: decoding a name buffer never fails, whatever it holds: the result
\* is the bytes before the first NUL (all of them when there is no NUL),
\* each byte that is not valid UTF-8 replaced by U+FFFD.
C27_NameDecodingTotal ==
    dec.op \in {"entity_name", "info_name", "desc_name"} =>
        LET n == FirstNul(dec.raw)
            want == IF n = 0 THEN dec.raw ELSE SubSeq(dec.raw, 1, n - 1)
        IN  /\ IsOk(dec.result)
            /\ dec.result.val = to_string_lossy(want)

---------------------------------------------------------------------------
(* Properties of MediaLinksEnum, under SpecLinksEnum.                      *)

\* C22: MediaLinksEnum::new first fetches the entity's descriptor and then
\* issues one MEDIA_IOC_ENUM_LINKS with a pad buffer and a link buffer of
\* exactly the descriptor's counts; when the fetch fails it returns that
\* error without the second call; a MediaLinksEnum it returns has as many
\* pads and links as the descriptor said, for the entity id asked for.
C22_FetchThenEnumerate ==
    /\ Len(lenum.calls) <= 2
    /\ lenum.pc = "idle" <=> lenum.calls = <<>>
    /\ Len(lenum.calls) >= 1 =>
          /\ lenum.calls[1].api = "MEDIA_IOC_ENUM_ENTITIES"
          /\ lenum.calls[1].id = lenum.entity
    /\ lenum.pc = "fetched" => (Len(lenum.calls) = 1 /\ lenum.calls[1].ok)
    /\ Len(lenum.calls) = 2 =>
          /\ lenum.calls[1].ok
          /\ lenum.desc.some
          /\ lenum.calls[2].api = "MEDIA_IOC_ENUM_LINKS"
          /\ lenum.calls[2].id = lenum.entity
          /\ lenum.calls[2].npads = lenum.desc.val.pads
          /\ lenum.calls[2].nlinks = lenum.desc.val.links
    /\ (Len(lenum.calls) >= 1 /\ ~lenum.calls[1].ok) =>
          /\ lenum.pc = "done"
          /\ Len(lenum.calls) = 1
          /\ IsErr(lenum.result)
    /\ (lenum.pc = "done" /\ IsOk(lenum.result)) =>
          /\ Len(lenum.calls) = 2
          /\ lenum.calls[2].ok
          /\ lenum.result.val.entity = lenum.entity
          /\ Len(lenum.result.val.pads) = lenum.desc.val.pads
          /\ Len(lenum.result.val.links) = lenum.desc.val.links

\* C22 happens: an entity of two pads and two links has been enumerated.
C22_Witness ==
    /\ lenum.pc = "done"
    /\ IsOk(lenum.result)
    /\ lenum.entity = EntityId(FALSE, 1)
    /\ Len(lenum.result.val.pads) = 2
    /\ Len(lenum.result.val.links) = 2

\* C23: when the entity lost pads or links between the two calls, so that
\* the kernel left zeroed records at the end of a buffer, new still returns
\* a MediaLinksEnum, made of the records that are not zeroed.
C23_ShrinkTolerated ==
    (/\ lenum.pc = "done"
     /\ lenum.buf.some
     /\ \/ \E i \in 1..Len(lenum.buf.val.pads) : lenum.buf.val.pads[i] = ZeroedPadDesc
        \/ \E i \in 1..Len(lenum.buf.val.links) : lenum.buf.val.links[i] = ZeroedLinkDesc)
    => /\ IsOk(lenum.result)
       /\ Len(lenum.result.val.pads)
             = Len(SelectSeq(lenum.buf.val.pads, LAMBDA x : x # ZeroedPadDesc))
       /\ Len(lenum.result.val.links)
             = Len(SelectSeq(lenum.buf.val.links, LAMBDA x : x # ZeroedLinkDesc))

---------------------------------------------------------------------------
(* Properties of MediaLinkDesc::setup, under SpecLinkSetup.                *)

\* C29: a setup whose control call fails leaves the MediaLinkDesc as it was
\* (source, sink and flags); a setup whose call succeeds replaces it by the
\* decoding of the record the kernel wrote back.
C29_SetupFrame ==
    held.pre.some =>
        /\ IsErr(held.result) <=> IsErr(held.back)
        /\ IsErr(held.result) => held.desc = held.pre.val
        /\ IsOk(held.back) =>
              /\ IsOk(held.result)
              /\ MediaLinkDesc_from(held.back.val) = Ok(held.desc)

\* C29 happens: a link whose source index was 2^16 + 1 has been set up as
\* enabled and dynamic, and the descriptor now is what the kernel's record
\* decodes to.
C29_Witness ==
    /\ held.pre.some
    /\ held.pre.val.source.index = U16 + 1
    /\ held.pre.val.flags = {}
    /\ IsOk(held.result)
    /\ held.desc.source.index = 1
    /\ held.desc.flags = BitOr(MEDIA_LNK_FL_ENABLED, MEDIA_LNK_FL_DYNAMIC)

=============================================================================
